---- MODULE Spec2Model ----
(***************************************************************************)
(* Moderation / content-filter engine of the group-management bot:         *)
(*   - calculateSimilarity, isSpam, containsBannedContent (contentFilter)  *)
(*   - checkSpam, updateMessageCache, handleSpam, handleBannedContent      *)
(*     (messageHandler)                                                    *)
(*   - getExpiredRestrictions, removeRestriction, getUserRestrictedChats,  *)
(*     logInfraction, getUserInfractions (queries)                         *)
(*   - checkTemporaryBans (scheduler)                                      *)
(* Text is a sequence of one-character strings.  A JavaScript double that  *)
(* is a ratio of two small integers is kept as the pair <<num, den>>.      *)
(***************************************************************************)
EXTENDS Integers, Sequences, FiniteSets, TLC

\* ------------------------------------------------------------------ bounds
\* longest string drawn for the similarity scorer
MaxStrLen == 3
\* most pieces a text drawn for isSpam is put together from
MaxPieces == 3
\* most rules in a list drawn for containsBannedContent
MaxRules == 3
\* most entries kept in the recent-message windows, all senders together
MaxWindow == 3
\* the clock advances in steps of TickMs, at most MaxTicks times
TickMs == 30000
MaxTicks == 2
\* most rows in the infractions table
MaxInfractions == 3
\* the store's clock stops at MaxClock minutes
MaxClock == 4

\* ---------------------------------------------------- program constants
\* config.maxMessagesPerMinute, config.maxSimilarMessages
maxMessagesPerMinute == 10
maxSimilarMessages == 3
\* the window of checkSpam and updateMessageCache, in milliseconds
WindowMs == 60000

\* config.maxWarnings
maxWarnings == 3
\* getUserRestrictedChats looks back 30 days, in minutes
RestrictedChatsWindow == 43200

Users == {"u1", "u2"}
\* length of the filler that makes a text drawn for isSpam long
FillerLen == 301

VARIABLES
    str1,        \* calculateSimilarity: first argument
    str2,        \* calculateSimilarity: second argument
    simResult,   \* calculateSimilarity: returned ratio, NoResult before the call
    text,            \* isSpam: the message text
    recentMessages,  \* isSpam: the sender's recent messages, each [text |-> ...]
    sensitivity,     \* isSpam: the sensitivity of the call, 0 before the call
    spamResult,      \* isSpam: the returned verdict
    jsText,          \* isSpam given any value: the text argument
    jsRecent,        \* isSpam given any value: the recentMessages argument
    jsSensitivity,   \* isSpam given any value: the sensitivity, 0 before the call
    jsOutcome,       \* isSpam given any value: [threw, value] of the call
    bcText,          \* containsBannedContent: the text
    bannedContent,   \* containsBannedContent: the list of rules
    bcCalled,        \* containsBannedContent: the call has returned
    bcResult,        \* containsBannedContent: <<rule>> returned, <<>> for null
    now,             \* Date.now(), in milliseconds
    messageCache,    \* the Map userId -> array of [text, timestamp]
    csMsg,           \* checkSpam: the message of the last call, [from, text]
    csSensitivity,   \* checkSpam: the sensitivity of the last call, 0 when none
    csResult,        \* checkSpam: the verdict of the last call
    storeVersion,    \* which revision of the sweep queries is deployed
    clock,           \* the store's NOW(), in minutes
    infractions,     \* the infractions table, in insertion order (id = index)
    messageLogs,     \* the <<user_id, chat_id>> pairs present in message_logs
    bannedUsers,     \* the users whose users.is_banned is true
    sweepQueue,      \* checkTemporaryBans: the selected rows not yet processed,
                     \*                     empty when no run is in progress
    sweepPrior,      \* history: the ids resolved before the running sweep began
    resolved,        \* history: ids whose removeRestriction returned normally,
                     \*          no infraction having been written by a handler since
    reLifted,        \* history: ids in sweepPrior for which the running sweep
                     \*          requested a lift
    sweepLog,        \* checkTemporaryBans run as a whole: what the last run
                     \*                     selected and did, in order
    race,            \* the platform's bans, and the history of a ban issued
                     \*                     while a sweep was in progress
    hbc,             \* handleBannedContent, handleSpam: what the last call did
    settingsVersion, \* which revision of the settings queries is deployed
    groupSettings,   \* the group_settings table, chat_id -> row
    gsOutcome,       \* getGroupSettings: what the last call did
    hm               \* handleMessage: what the last call did

simVars  == <<str1, str2, simResult>>
jsVars == <<jsText, jsRecent, jsSensitivity, jsOutcome>>
spamVars == <<text, recentMessages, sensitivity, spamResult, jsVars>>
setVars == <<settingsVersion, groupSettings, gsOutcome>>
bcVars   == <<bcText, bannedContent, bcCalled, bcResult, setVars>>
cacheVars == <<now, messageCache, csMsg, csSensitivity, csResult, hm>>
storeVars == <<storeVersion, clock, infractions, messageLogs, bannedUsers>>
sweepVars == <<sweepQueue, sweepPrior, resolved, reLifted, sweepLog, race>>
modVars == <<storeVars, sweepVars, hbc>>
vars == <<simVars, spamVars, bcVars, cacheVars, modVars>>

\* value of a result variable before the call has returned
NoResult == <<>>

\* ------------------------------------------------------------ arithmetic
Min(a, b) == IF a < b THEN a ELSE b
Max(a, b) == IF a > b THEN a ELSE b

\* ratios num/den with den > 0, compared by cross-multiplication
RatEq(p, q) == p[1] * q[2] = q[1] * p[2]
RatGt(p, q) == p[1] * q[2] > q[1] * p[2]
RatGe(p, q) == p[1] * q[2] >= q[1] * p[2]

\* all sequences over S of length at most n
SeqsUpTo(S, n) == UNION {[1..k -> S] : k \in 0..n}

\* ------------------------------------------------- calculateSimilarity
\* One pass of the j-loop body of calculateSimilarity: st = <<costs,
\* lastValue>>, costs the JavaScript array (indexed from 0), lastValue the
\* loop-carried local.  shorter[i - 1] and longer[j - 1] of the source are
\* shorter[i] and longer[j] here (sequences are indexed from 1).
similarityStep(shorter, longer, i, j, st) ==
    LET costs     == st[1]
        lastValue == st[2]
    IN IF i = 0 THEN <<[costs EXCEPT ![j] = j], lastValue>>
       ELSE IF j > 0
            THEN LET newValue0 == costs[j - 1]
                     newValue  == IF shorter[i] # longer[j]
                                  THEN Min(Min(newValue0, lastValue), costs[j]) + 1
                                  ELSE newValue0
                 IN <<[costs EXCEPT ![j - 1] = lastValue], newValue>>
       ELSE st

\* The j-loop for j = lo..hi in increasing order.  The range is split in
\* halves and the first half is evaluated before the second is entered (the
\* test on left does that; it is never <<>>), so that long strings need no
\* deep nesting of evaluations.
RECURSIVE similarityInner(_, _, _, _, _, _)
similarityInner(shorter, longer, i, lo, hi, st) ==
    IF lo > hi THEN st
    ELSE IF lo = hi THEN similarityStep(shorter, longer, i, lo, st)
    ELSE LET mid  == (lo + hi) \div 2
             left == similarityInner(shorter, longer, i, lo, mid, st)
         IN IF left = <<>> THEN left
            ELSE similarityInner(shorter, longer, i, mid + 1, hi, left)

\* The i-loop: runs the j-loop with lastValue = i, then stores lastValue in
\* costs[longer.length] when i > 0.  Returns the final costs array.
RECURSIVE similarityOuter(_, _, _, _)
similarityOuter(shorter, longer, i, costs) ==
    IF i > Len(shorter) THEN costs
    ELSE LET r      == similarityInner(shorter, longer, i, 0, Len(longer),
                                       <<costs, i>>)
             costs1 == IF i > 0 THEN [r[1] EXCEPT ![Len(longer)] = r[2]]
                       ELSE r[1]
         IN IF costs1 = <<>> THEN costs1
            ELSE similarityOuter(shorter, longer, i + 1, costs1)

\* mutant: the two arguments are not ordered by length (longer is always str2)
calculateSimilarityNoSwap(s1, s2) ==
    LET longer  == s2
        shorter == s1
    IN IF Len(longer) = 0 THEN <<1, 1>>
       ELSE LET costs == similarityOuter(shorter, longer, 0,
                                         [k \in 0..Max(Len(longer), Len(shorter)) |-> 0])
            IN <<Len(longer) - costs[Len(shorter)], Len(longer)>>

\* mutant: the distance itself is returned as the ratio instead of its complement
calculateSimilarityDistance(s1, s2) ==
    LET longer  == IF Len(s1) > Len(s2) THEN s1 ELSE s2
        shorter == IF Len(s1) > Len(s2) THEN s2 ELSE s1
    IN IF Len(longer) = 0 THEN <<1, 1>>
       ELSE LET costs == similarityOuter(shorter, longer, 0,
                                         [k \in 0..Len(longer) |-> 0])
            IN <<costs[Len(shorter)], Len(longer)>>

\* calculateSimilarity(str1, str2) of contentFilter: the ratio
\* (longer.length - costs[shorter.length]) / longer.length, 1.0 when both
\* strings are empty.
calculateSimilarity(s1, s2) ==
    LET longer  == IF Len(s1) > Len(s2) THEN s1 ELSE s2
        shorter == IF Len(s1) > Len(s2) THEN s2 ELSE s1
    IN IF Len(longer) = 0 THEN <<1, 1>>
       ELSE LET costs == similarityOuter(shorter, longer, 0,
                                         [k \in 0..Len(longer) |-> 0])
            IN <<Len(longer) - costs[Len(shorter)], Len(longer)>>

\* Classic Levenshtein distance between the first i characters of a and the
\* first j characters of b (insert, delete, substitute each cost 1).
RECURSIVE Levenshtein(_, _, _, _)
Levenshtein(a, b, i, j) ==
    IF i = 0 THEN j
    ELSE IF j = 0 THEN i
    ELSE Min(Min(Levenshtein(a, b, i - 1, j) + 1,
                 Levenshtein(a, b, i, j - 1) + 1),
             Levenshtein(a, b, i - 1, j - 1) + (IF a[i] = b[j] THEN 0 ELSE 1))

\* ------------------------------------------------------- characters
UpperCase == <<"A","B","C","D","E","F","G","H","I","J","K","L","M",
               "N","O","P","Q","R","S","T","U","V","W","X","Y","Z">>
LowerCase == <<"a","b","c","d","e","f","g","h","i","j","k","l","m",
               "n","o","p","q","r","s","t","u","v","w","x","y","z">>
Digits    == {"0","1","2","3","4","5","6","7","8","9"}

\* [A-Z], [a-zA-Z], \s, \w and the line terminators that "." does not match
IsUpper(c)  == \E k \in 1..26 : UpperCase[k] = c
IsLower(c)  == \E k \in 1..26 : LowerCase[k] = c
IsAlpha(c)  == IsUpper(c) \/ IsLower(c)
IsSpace(c)  == c \in {" ", "\t", "\n", "\r"}
IsWordCh(c) == IsAlpha(c) \/ c \in Digits \/ c = "_"
IsLineEnd(c) == c \in {"\n", "\r"}

\* String.prototype.toLowerCase, character by character
ToLowerChar(c) ==
    IF IsUpper(c) THEN LowerCase[CHOOSE k \in 1..26 : UpperCase[k] = c] ELSE c
toLowerCase(t) == [k \in 1..Len(t) |-> ToLowerChar(t[k])]

\* the character classes used below, by name: [A-Z], [a-zA-Z], \s and \W
InClass(cls, c) ==
    CASE cls = "upper"   -> IsUpper(c)
      [] cls = "alpha"   -> IsAlpha(c)
      [] cls = "space"   -> IsSpace(c)
      [] cls = "nonword" -> ~IsWordCh(c)

\* number of characters of t in the class: t.replace(/[^class]/g, '').length
CountChars(t, cls) == Cardinality({k \in 1..Len(t) : InClass(cls, t[k])})

\* number of occurrences of the character c in t
CountCharsEq(t, c) == Cardinality({k \in 1..Len(t) : t[k] = c})

\* s occurs in t at position p
OccursAt(t, s, p) ==
    /\ p + Len(s) - 1 <= Len(t)
    /\ \A k \in 1..Len(s) : t[p + k - 1] = s[k]
\* String.prototype.includes
Includes(t, s) == \E p \in 1..(Len(t) + 1) : OccursAt(t, s, p)

\* ---- t.split(/sep+/) for a separator class sep: the maximal runs of
\* non-separator characters, plus an empty piece in front when t starts
\* with a separator and one at the end when t ends with one.
PieceStarts(t, sep) ==
    {k \in 1..Len(t) : ~InClass(sep, t[k]) /\ (k = 1 \/ InClass(sep, t[k - 1]))}
PieceEnd(t, sep, k) ==
    CHOOSE e \in k..Len(t) :
        /\ \A m \in k..e : ~InClass(sep, t[m])
        /\ (e = Len(t) \/ InClass(sep, t[e + 1]))
PieceAt(t, sep, k) == SubSeq(t, k, PieceEnd(t, sep, k))
EmptyPieces(t, sep) ==
    IF Len(t) = 0 THEN 1
    ELSE (IF InClass(sep, t[1]) THEN 1 ELSE 0) + (IF InClass(sep, t[Len(t)]) THEN 1 ELSE 0)
\* how often the piece w occurs in the split
PieceCount(t, sep, w) ==
    IF w = <<>> THEN EmptyPieces(t, sep)
    ELSE Cardinality({k \in PieceStarts(t, sep) : PieceAt(t, sep, k) = w})
\* the set of pieces of the split
Pieces(t, sep) ==
    {PieceAt(t, sep, k) : k \in PieceStarts(t, sep)}
        \cup (IF EmptyPieces(t, sep) > 0 THEN {<<>>} ELSE {})

\* ---- matches of /https?:\/\/[^\s]+/g (ci: with the i flag)
\* a match can start at p: "http", an optional "s", "://", one non-space
UrlStartAt(t, p, ci) ==
    LET ch(k)   == IF ci THEN ToLowerChar(t[p + k]) ELSE t[p + k]
        has(k, c) == p + k <= Len(t) /\ ch(k) = c
        rest(o) == /\ has(o, ":") /\ has(o + 1, "/") /\ has(o + 2, "/")
                   /\ p + o + 3 <= Len(t)
                   /\ ~IsSpace(t[p + o + 3])
    IN /\ has(0, "h") /\ has(1, "t") /\ has(2, "t") /\ has(3, "p")
       /\ ((has(4, "s") /\ rest(5)) \/ rest(4))
\* The global match scans left to right and each match runs to the next
\* white space, so the matches start at the positions where a match can
\* start that no earlier match has consumed.
UrlMatchStarts(t, ci) ==
    {p \in 1..Len(t) :
        /\ UrlStartAt(t, p, ci)
        /\ ~\E q \in 1..(p - 1) :
              UrlStartAt(t, q, ci) /\ \A m \in q..p : ~IsSpace(t[m])}
UrlMatchAt(t, p) == SubSeq(t, p, PieceEnd(t, "space", p))

\* ---- matches of /(.)\1{4,}/g: the greedy match consumes a whole run of
\* one character, so there is one match per maximal run of 5 or more equal
\* characters ("." matches no line terminator).
RepeatMatchStarts(t) ==
    {p \in 1..Len(t) :
        /\ ~IsLineEnd(t[p])
        /\ (p = 1 \/ t[p - 1] # t[p])
        /\ p + 4 <= Len(t)
        /\ \A m \in p..(p + 4) : t[m] = t[p]}

\* --------------------------------------------------------------- isSpam
\* mutant: Math.floor(sensitivityFactor) for Math.floor(sensitivityFactor * 2)
floorFactor1(s) == s \div 10

\* Math.floor(sensitivityFactor * 2) with sensitivityFactor = sensitivity / 10
\* (the doubles 0.2, 0.4, ..., 2.0 floor as the exact values do)
floorFactor2(s) == (2 * s) \div 10

\* (caps / total) > (0.7 - (sensitivityFactor * 0.2)) in IEEE-754 doubles.
\* The right-hand side evaluates to the double just below 0.70 - 0.02 s
\* (0.49999999999999994 at s = 10, 0.6799999999999999 at s = 1, ...) except
\* at s = 5 and s = 6, where it is the double nearest to 0.60 and 0.58;
\* caps / total is the double nearest to the exact ratio.  So a ratio equal
\* to the decimal threshold passes the test unless s is 5 or 6, and every
\* other ratio compares as the exact values do.
capsOverThreshold(caps, total, s) ==
    \/ 100 * caps > (70 - 2 * s) * total
    \/ 100 * caps = (70 - 2 * s) * total /\ s \notin {5, 6}

\* similarity > (0.8 - (sensitivityFactor * 0.2)) in IEEE-754 doubles: the
\* right-hand side is the double nearest to 0.80 - 0.02 s or the one above
\* it (0.7000000000000001 at s = 5, 0.6000000000000001 at s = 10), so the
\* test is the exact comparison.
similarityOverThreshold(sim, s) == 100 * sim[1] > (80 - 2 * s) * sim[2]

\* Excessive capitalization
spamCaps(t, s) ==
    LET caps  == CountChars(t, "upper")
        total == CountChars(t, "alpha")
    IN total > 0 /\ capsOverThreshold(caps, total, s)

\* Repeated characters (text.match is null without a match: falsy)
spamRepeats(t, s) ==
    LET repeats == RepeatMatchStarts(t)
    IN repeats # {} /\ Cardinality(repeats) > 2 - floorFactor2(s)

\* URL spam
spamUrls(t, s) ==
    LET urls == UrlMatchStarts(t, FALSE)
    IN urls # {} /\ Cardinality(urls) > 2 - floorFactor2(s)

\* Keys that a plain object inherits and that are spelled in lower case:
\* wordCounts[word] is then not a number, and "count > n" is false for it.
PrototypeKeys ==
    { <<"c","o","n","s","t","r","u","c","t","o","r">>,
      <<"_","_","p","r","o","t","o","_","_">> }

\* Repeated words: text.toLowerCase().split(/\s+/), counted per word
spamWords(t, s) ==
    LET lower == toLowerCase(t)
    IN \E w \in Pieces(lower, "space") :
          /\ w \notin PrototypeKeys
          /\ PieceCount(lower, "space", w) > 3 - floorFactor2(s)

\* Message length: 500 - sensitivityFactor * 200 is exactly 500 - 20 s
spamLength(t, s) == Len(t) > 500 - 20 * s

\* Similar to recent messages
spamSimilar(t, recent, s) ==
    /\ Len(recent) > 0
    /\ \E k \in 1..Len(recent) :
          /\ recent[k].text # <<>>
          /\ similarityOverThreshold(calculateSimilarity(t, recent[k].text), s)

\* spamScore: how many of the six patterns match
spamScore(t, recent, s) ==
      (IF spamCaps(t, s) THEN 1 ELSE 0)
    + (IF spamRepeats(t, s) THEN 1 ELSE 0)
    + (IF spamUrls(t, s) THEN 1 ELSE 0)
    + (IF spamWords(t, s) THEN 1 ELSE 0)
    + (IF spamLength(t, s) THEN 1 ELSE 0)
    + (IF spamSimilar(t, recent, s) THEN 1 ELSE 0)

\* mutant: the threshold rises with the sensitivity (1 + 2f for 3 - 2f)
spamThresholdRising(s) == Max(1, (10 + 2 * s) \div 10)

\* Math.max(1, Math.floor(3 - (sensitivityFactor * 2))): the doubles 2.8,
\* 2.6, ..., 1.0 floor as the exact values do
spamThreshold(s) == Max(1, (30 - 2 * s) \div 10)

\* isSpam(text, recentMessages, sensitivity); an empty text is falsy
isSpam(t, recent, s) ==
    IF t = <<>> THEN FALSE
    ELSE spamScore(t, recent, s) >= spamThreshold(s)

\* ------------------------------------- isSpam on values of any type
\* A JavaScript value, as far as isSpam looks at it: its type, and its
\* characters when it is a string (its digits when it is a number).
JsString(str) == [type |-> "string", str |-> str]
JsNumber(digits) == [type |-> "number", str |-> digits]
JsUndefined == [type |-> "undefined", str |-> <<>>]
JsNull == [type |-> "null", str |-> <<>>]
JsObject == [type |-> "object", str |-> <<>>]

\* !value is false
truthy(v) ==
    CASE v.type = "string" -> v.str # <<>>
      [] v.type = "number" -> v.str # <<"0">>
      [] v.type = "object" -> TRUE
      [] OTHER -> FALSE

\* an element of recentMessages: a value, with its text property when it
\* is an object
JsEntry(v, textValue) == [type |-> v.type, str |-> v.str, text |-> textValue]

\* the result of evaluating an expression: a value, or a TypeError raised
Returned(b) == [err |-> FALSE, val |-> b]
Raised == [err |-> TRUE, val |-> FALSE]

\* recentMessages.some(msg => ...), entry by entry: msg.text raises on null
\* and undefined; calculateSimilarity gives 0 unless both are strings
RECURSIVE someSimilar(_, _, _, _)
someSimilar(t, items, k, s) ==
    IF k > Len(items) THEN Returned(FALSE)
    ELSE LET msg == items[k]
         IN IF msg.type \in {"null", "undefined"} THEN Raised
            ELSE IF ~truthy(msg.text) THEN someSimilar(t, items, k + 1, s)
            ELSE IF /\ msg.text.type = "string"
                    /\ similarityOverThreshold(
                           calculateSimilarity(t, msg.text.str), s)
                 THEN Returned(TRUE)
            ELSE someSimilar(t, items, k + 1, s)

\* the sixth pattern on any recentMessages value: a falsy value or an empty
\* array gives false; a truthy value that is not an array has no some()
similarPattern(t, recent, s) ==
    IF recent.type = "array"
    THEN IF Len(recent.items) = 0 THEN Returned(FALSE)
         ELSE someSimilar(t, recent.items, 1, s)
    ELSE IF recent.type \in {"undefined", "null"} THEN Returned(FALSE)
    ELSE Raised

\* the body of the try block: a falsy text returns false; a truthy text
\* that is not a string has no replace() and the first pattern raises; all
\* six patterns are evaluated before the score is compared
isSpamBody(v, recent, s) ==
    IF ~truthy(v) THEN Returned(FALSE)
    ELSE IF v.type # "string" THEN Raised
    ELSE LET t == v.str
             similar == similarPattern(t, recent, s)
             score ==   (IF spamCaps(t, s) THEN 1 ELSE 0)
                      + (IF spamRepeats(t, s) THEN 1 ELSE 0)
                      + (IF spamUrls(t, s) THEN 1 ELSE 0)
                      + (IF spamWords(t, s) THEN 1 ELSE 0)
                      + (IF spamLength(t, s) THEN 1 ELSE 0)
                      + (IF similar.val THEN 1 ELSE 0)
         IN IF similar.err THEN Raised
            ELSE Returned(score >= spamThreshold(s))

\* mutant: no catch clause, the error leaves the function
catchRethrow(r) == [threw |-> r.err, value |-> r.val]

\* catch (error) { logger.error(...); return false; }
catchError(r) ==
    [threw |-> FALSE, value |-> IF r.err THEN FALSE ELSE r.val]

\* isSpam(text, recentMessages, sensitivity) for arguments of any type
isSpamAny(v, recent, s) == catchError(isSpamBody(v, recent, s))

\* ------------------------------------------------ containsBannedContent
\* new RegExp(pattern, 'i') for the patterns drawn here: a pattern of
\* letters and digits is a literal; a pattern with an unclosed "(" does not
\* compile (SyntaxError).
regexCompiles(pattern) ==
    CountCharsEq(pattern, "(") = CountCharsEq(pattern, ")")
\* regex.test(text) for a literal pattern with the i flag
regexTest(pattern, t) == Includes(toLowerCase(t), toLowerCase(pattern))

\* mutant: the WORD case tests lowerText.includes(content) as PHRASE does
wordIncludes(lowerText, content) == Includes(lowerText, content)

\* const words = lowerText.split(/\W+/); words.includes(content)
wordMatches(lowerText, content) == content \in Pieces(lowerText, "nonword")

\* the body of one case of the switch: does the rule return from the scan
ruleMatches(banned, t) ==
    LET lowerText == toLowerCase(t)
        content   == toLowerCase(banned.content)
    IN CASE banned.content_type = "WORD" ->
              wordMatches(lowerText, content)
         [] banned.content_type = "PHRASE" ->
              Includes(lowerText, content)
         [] banned.content_type = "REGEX" ->
              regexCompiles(banned.content) /\ regexTest(banned.content, t)
         [] banned.content_type = "LINK" ->
              \E p \in UrlMatchStarts(t, TRUE) :
                  Includes(toLowerCase(UrlMatchAt(t, p)), content)
         [] OTHER -> FALSE

\* mutant: [...bannedContent].sort((a, b) => a.severity - b.severity)
RECURSIVE sortBySeverityAscending(_)
sortBySeverityAscending(list) ==
    IF list = <<>> THEN <<>>
    ELSE LET k == CHOOSE i \in 1..Len(list) :
                     /\ \A j \in 1..Len(list) : list[j].severity >= list[i].severity
                     /\ \A j \in 1..(i - 1) : list[j].severity > list[i].severity
         IN <<list[k]>> \o sortBySeverityAscending(
                SubSeq(list, 1, k - 1) \o SubSeq(list, k + 1, Len(list)))

\* [...bannedContent].sort((a, b) => b.severity - a.severity): a stable
\* sort, highest severity first (the first of the most severe rules, then
\* the rest sorted)
RECURSIVE sortBySeverity(_)
sortBySeverity(list) ==
    IF list = <<>> THEN <<>>
    ELSE LET k == CHOOSE i \in 1..Len(list) :
                     /\ \A j \in 1..Len(list) : list[j].severity <= list[i].severity
                     /\ \A j \in 1..(i - 1) : list[j].severity < list[i].severity
         IN <<list[k]>> \o sortBySeverity(
                SubSeq(list, 1, k - 1) \o SubSeq(list, k + 1, Len(list)))

\* the try block of the REGEX case: new RegExp raises on a pattern that
\* does not compile, otherwise regex.test(text) decides
regexBody(banned, t) ==
    IF regexCompiles(banned.content)
    THEN Returned(regexTest(banned.content, t))
    ELSE Raised

\* mutant: the REGEX case without its own catch clause: the error leaves
\* the loop and reaches the catch clause of the function
regexCatchNone(r) ==
    IF r.err THEN "throw" ELSE IF r.val THEN "return" ELSE "break"

\* catch (error) { logger.error('Invalid regex ...') } followed by break
regexCatch(r) ==
    IF r.err THEN "break" ELSE IF r.val THEN "return" ELSE "break"

\* how one iteration of the for loop ends: "return" (return banned),
\* "break" (next rule) or "throw"
caseOutcome(banned, t) ==
    IF banned.content_type = "REGEX" THEN regexCatch(regexBody(banned, t))
    ELSE IF ruleMatches(banned, t) THEN "return"
    ELSE "break"

\* the for loop over sortedContent: the first rule that returns, or null;
\* an error that leaves the loop is caught by the function, which returns
\* null
RECURSIVE scanSorted(_, _)
scanSorted(sortedContent, t) ==
    IF sortedContent = <<>> THEN <<>>
    ELSE LET outcome == caseOutcome(Head(sortedContent), t)
         IN IF outcome = "return" THEN <<Head(sortedContent)>>
            ELSE IF outcome = "throw" THEN <<>>
            ELSE scanSorted(Tail(sortedContent), t)

\* containsBannedContent(text, bannedContent): <<rule>> or <<>> for null
containsBannedContent(t, list) ==
    IF t = <<>> \/ Len(list) = 0 THEN <<>>
    ELSE scanSorted(sortBySeverity(list), t)

\* ------------------------------------ checkSpam and updateMessageCache
\* calculateSimilarity of messageHandler: the same loops as contentFilter's,
\* without the typeof guard
calculateSimilarityMH(s1, s2) ==
    LET longer  == IF Len(s1) > Len(s2) THEN s1 ELSE s2
        shorter == IF Len(s1) > Len(s2) THEN s2 ELSE s1
    IN IF Len(longer) = 0 THEN <<1, 1>>
       ELSE LET costs == similarityOuter(shorter, longer, 0,
                                         [k \in 0..Len(longer) |-> 0])
            IN <<Len(longer) - costs[Len(shorter)], Len(longer)>>

\* mutant: userMessages.filter(m => now - m.timestamp <= 60000)
RECURSIVE filterRecentInclusive(_, _)
filterRecentInclusive(userMessages, t) ==
    IF userMessages = <<>> THEN <<>>
    ELSE (IF t - Head(userMessages).timestamp <= WindowMs
          THEN <<Head(userMessages)>> ELSE <<>>)
         \o filterRecentInclusive(Tail(userMessages), t)

\* userMessages.filter(m => now - m.timestamp < 60000)
RECURSIVE filterRecent(_, _)
filterRecent(userMessages, t) ==
    IF userMessages = <<>> THEN <<>>
    ELSE (IF t - Head(userMessages).timestamp < WindowMs
          THEN <<Head(userMessages)>> ELSE <<>>)
         \o filterRecent(Tail(userMessages), t)

\* recentMessages.length >= config.maxMessagesPerMinute * (sensitivity / 5):
\* the right-hand side is exactly 2, 4, ..., 20 in doubles
frequencyExceeded(n, s) == 5 * n >= maxMessagesPerMinute * s

\* checkSpam(msg, messageCache, sensitivity) at time t
checkSpam(msg, cache, s, t) ==
    LET userMessages   == cache[msg.from]
        recentMsgs == filterRecent(userMessages, t)
        similarMsgs ==
            {k \in 1..Len(recentMsgs) :
                /\ recentMsgs[k].text # <<>>
                /\ RatGt(calculateSimilarityMH(recentMsgs[k].text, msg.text),
                         <<8, 10>>)}
    IN IF frequencyExceeded(Len(recentMsgs), s) THEN TRUE
       ELSE IF msg.text # <<>>
               /\ Cardinality(similarMsgs) >= maxSimilarMessages THEN TRUE
       ELSE FALSE

\* updateMessageCache(msg, messageCache) at time t: the new cache
updateMessageCache(msg, cache, t) ==
    LET userMessages == Append(cache[msg.from],
                               [text |-> msg.text, timestamp |-> t])
    IN [cache EXCEPT ![msg.from] = filterRecent(userMessages, t)]

\* ------------------------------------ specification: similarity scorer
SimAlphabet == {"a", "b", "c"}
SimStrings  == SeqsUpTo(SimAlphabet, MaxStrLen)

SimIdle == str1 = <<>> /\ str2 = <<>> /\ simResult = NoResult
JsIdle ==
    /\ jsText = JsUndefined
    /\ jsRecent = [type |-> "undefined", items |-> <<>>]
    /\ jsSensitivity = 0
    /\ jsOutcome = [threw |-> FALSE, value |-> FALSE]

SpamIdle ==
    /\ text = <<>> /\ recentMessages = <<>> /\ sensitivity = 0 /\ spamResult = FALSE
    /\ JsIdle

Chats == {"c1", "c2"}
NULL == 0 - 1

\* ------------------------------------------------ the group settings
\* a chat without a row in group_settings
NoRow == [exists |-> FALSE, spam_sensitivity |-> NULL, max_warnings |-> NULL,
          mute_duration |-> NULL, ban_duration |-> NULL]
\* defaultSettings of getGroupSettings
DefaultSettings == [spamSensitivity |-> 5, maxWarnings |-> 3,
                    muteDuration |-> 60, banDuration |-> 1440]
\* { ...settings, spam_sensitivity: value } as updateGroupSettings reads it:
\* the keys of a row are snake_case, so settings.spamSensitivity,
\* settings.maxWarnings, settings.muteDuration and settings.banDuration are
\* undefined (sent to the store as NULL)
SpreadOfRow == [spamSensitivity |-> NULL, maxWarnings |-> NULL,
                muteDuration |-> NULL, banDuration |-> NULL]

\* settings.x ? parseInt(settings.x) : d
orDefault(x, d) == IF x # NULL /\ x # 0 THEN x ELSE d

\* the values bound to $4..$7 by updateGroupSettings: as given, or (the
\* validating revision) with 5, 3, 60 and 1440 for what is missing
boundSettings(version, settings) ==
    IF version = "validate"
    THEN [spamSensitivity |-> orDefault(settings.spamSensitivity, 5),
          maxWarnings     |-> orDefault(settings.maxWarnings, 3),
          muteDuration    |-> orDefault(settings.muteDuration, 60),
          banDuration     |-> orDefault(settings.banDuration, 1440)]
    ELSE settings

\* updateGroupSettings(chatId, settings): INSERT ... ON CONFLICT (chat_id) DO
\* UPDATE ... RETURNING *. The first revision returns the result of the
\* query (hasRows: it has a rows array), the later ones return rows[0].
updateGroupSettings(version, table, chatId, settings) ==
    LET b   == boundSettings(version, settings)
        row == [exists |-> TRUE, spam_sensitivity |-> b.spamSensitivity,
                max_warnings |-> b.maxWarnings,
                mute_duration |-> b.muteDuration,
                ban_duration |-> b.banDuration]
    IN [table |-> [table EXCEPT ![chatId] = row],
        hasRows |-> version = "plain",
        row |-> row]

\* getGroupSettings(chatId). "plain" and "validate": SELECT and return
\* rows[0], undefined without a row. "create": without a row,
\* (await updateGroupSettings(chatId, defaultSettings)).rows[0], where the
\* value awaited is already the row, which has no rows property: reading
\* [0] of undefined raises a TypeError, logged and thrown again.
getGroupSettings(version, table, chatId) ==
    IF table[chatId].exists
    THEN [kind |-> "row", row |-> table[chatId], table |-> table]
    ELSE IF version = "create"
    THEN LET u == updateGroupSettings(version, table, chatId, DefaultSettings)
         IN IF u.hasRows
            THEN [kind |-> "row", row |-> u.row, table |-> u.table]
            ELSE [kind |-> "throws", row |-> NoRow, table |-> u.table]
    ELSE [kind |-> "undefined", row |-> NoRow, table |-> table]

GsIdle == [called |-> FALSE, chat |-> "c1", hadRow |-> FALSE,
           kind |-> "undefined", row |-> NoRow]
SetIdle ==
    /\ settingsVersion = "plain"
    /\ groupSettings = [c \in Chats |-> NoRow]
    /\ gsOutcome = GsIdle

BcIdle ==
    /\ bcText = <<>> /\ bannedContent = <<>> /\ bcCalled = FALSE /\ bcResult = <<>>
    /\ SetIdle

HbcIdle == [called |-> FALSE, handler |-> "none", max_warnings |-> 0,
            priorWarns |-> 0, priorClass |-> 0, failed |-> "none",
            written |-> FALSE, action |-> "none", enforced |-> FALSE,
            threw |-> FALSE, duration |-> NULL, until |-> NULL,
            shown |-> NULL]

SweepLogIdle == [ran |-> FALSE, selected |-> {}, events |-> <<>>]

\* until: the until_date of the ban of a user in a chat, 0 for none; raced:
\* the users banned while a sweep held an expired ban of theirs; at: when a
\* sweep last lifted the ban of such a user; fresh: the sweep in progress
\* began after that ban; done: such a sweep has ended
RaceIdle == [until |-> [uc \in Users \X Chats |-> 0], raced |-> {}, at |-> 0,
             fresh |-> FALSE, done |-> FALSE]

ModIdle ==
    /\ storeVersion = "interval"
    /\ clock = 0
    /\ infractions = <<>>
    /\ messageLogs = {}
    /\ bannedUsers = {}
    /\ sweepQueue = {}
    /\ sweepPrior = {}
    /\ resolved = {}
    /\ reLifted = {}
    /\ sweepLog = SweepLogIdle
    /\ race = RaceIdle
    /\ hbc = HbcIdle

HmIdle == [called |-> FALSE, from |-> "u1", text |-> <<>>, admin |-> FALSE,
           calls |-> <<>>, cached |-> FALSE]

CacheIdle ==
    /\ now = 0
    /\ messageCache = [u \in Users |-> <<>>]
    /\ csMsg = [from |-> "u1", text |-> <<>>]
    /\ csSensitivity = 0
    /\ csResult = FALSE
    /\ hm = HmIdle

SimInit ==
    /\ str1 \in SimStrings
    /\ str2 \in SimStrings
    /\ simResult = NoResult
    /\ SpamIdle
    /\ BcIdle
    /\ CacheIdle
    /\ ModIdle

SimCall ==
    /\ simResult = NoResult
    /\ simResult' = calculateSimilarity(str1, str2)
    /\ UNCHANGED <<str1, str2, spamVars, bcVars, cacheVars, modVars>>

SimNext == SimCall

SpecSim == SimInit /\ [][SimNext]_vars

\* C6: calculateSimilarity(a, b) = 1 - L(a,b)/max(len a, len b) for all
\* strings a, b that are not both empty, L the classic Levenshtein distance.
C6_SimilarityIsLevenshtein ==
    (simResult # NoResult /\ Len(str1) + Len(str2) > 0) =>
        LET m == Max(Len(str1), Len(str2))
        IN RatEq(simResult, <<m - Levenshtein(str1, str2, Len(str1), Len(str2)), m>>)

\* C7: calculateSimilarity(s, s) = 1 for every string s, the empty string
\* included, and the result lies in [0, 1] for every pair of strings.
C7_SelfSimilarityAndRange ==
    simResult # NoResult =>
        /\ str1 = str2 => RatEq(simResult, <<1, 1>>)
        /\ RatGe(simResult, <<0, 1>>)
        /\ RatGe(<<1, 1>>, simResult)

\* C7 witness: a string of the greatest length drawn was scored against itself.
C7_Witness ==
    /\ simResult # NoResult
    /\ str1 = str2
    /\ Len(str1) = MaxStrLen

\* C8: calculateSimilarity(a, b) = calculateSimilarity(b, a) for all strings,
\* pairs of equal length included.
C8_Symmetric ==
    simResult # NoResult => RatEq(simResult, calculateSimilarity(str2, str1))

\* C8 witness: two different strings of equal length, and two strings of
\* different length, have been scored.
C8_Witness ==
    /\ simResult # NoResult
    /\ str1 # str2
    /\ Len(str1) = Len(str2)
    /\ Len(str1) > 1
    /\ RatGt(<<1, 1>>, simResult)

\* ------------------------------------------- specification: isSpam
\* the pieces texts are put together from
PieceCapsRun  == <<"A","A","A","A","A"," ">>
PieceLowerRun == <<"b","b","b","b","b">>
PieceUrl      == <<"h","t","t","p",":","/","/","x"," ">>
PieceWord     == <<"b"," ">>
PieceCap      == <<"A">>
SpamPieces == {PieceCapsRun, PieceLowerRun, PieceUrl, PieceWord, PieceCap}
\* a long stretch of text without capitals, runs, links or white space
Filler == [k \in 1..FillerLen |-> IF k % 2 = 1 THEN "c" ELSE "d"]

RECURSIVE Concat(_)
Concat(ps) == IF ps = <<>> THEN <<>> ELSE Head(ps) \o Concat(Tail(ps))

\* 'AAAAAAAAA http://x.co http://y.co http://z.co'
EndToEndText ==
    << "A", "A", "A", "A", "A", "A", "A", "A", "A", " ", "h", "t", "t", "p",
       ":", "/", "/", "x", ".", "c", "o", " ", "h", "t", "t", "p", ":", "/",
       "/", "y", ".", "c", "o", " ", "h", "t", "t", "p", ":", "/", "/", "z",
       ".", "c", "o" >>
SpamTexts ==
    {Concat(ps) : ps \in SeqsUpTo(SpamPieces, MaxPieces)}
        \cup {Filler \o p : p \in SpamPieces \cup {<<>>}}
        \cup {Filler \o Filler}
        \cup {EndToEndText}
SpamWindows ==
    { <<>>,
      <<[text |-> PieceCapsRun]>>,
      <<[text |-> <<>>], [text |-> PieceWord \o PieceWord]>>,
      <<[text |-> PieceUrl \o PieceCap], [text |-> PieceLowerRun]>> }

SpamInit ==
    /\ text \in SpamTexts
    /\ recentMessages \in SpamWindows
    /\ sensitivity = 0
    /\ spamResult = FALSE
    /\ JsIdle
    /\ SimIdle
    /\ BcIdle
    /\ CacheIdle
    /\ ModIdle

isSpamCall ==
    /\ sensitivity = 0
    /\ \E s \in 1..10 :
          /\ sensitivity' = s
          /\ spamResult' = isSpam(text, recentMessages, s)
    /\ UNCHANGED <<text, recentMessages, jsVars, simVars, bcVars, cacheVars, modVars>>

SpamNext == isSpamCall

SpecSpam == SpamInit /\ [][SpamNext]_vars

\* The six signals as the specification states them, in exact arithmetic,
\* with the similarity of two strings being 1 - L/max(len).
ClaimSimilarity(a, b) ==
    LET m == Max(Len(a), Len(b))
    IN IF m = 0 THEN <<1, 1>>
       ELSE <<m - Levenshtein(a, b, Len(a), Len(b)), m>>
ClaimSignals(t, recent, s) ==
    LET fl   == IF s = 10 THEN 2 ELSE IF s >= 5 THEN 1 ELSE 0   \* floor(2f)
        caps == CountChars(t, "upper")
        alph == CountChars(t, "alpha")
        low  == toLowerCase(t)
    IN  (IF alph > 0 /\ 100 * caps > (70 - 2 * s) * alph THEN 1 ELSE 0)
      + (IF Cardinality(RepeatMatchStarts(t)) > 2 - fl THEN 1 ELSE 0)
      + (IF Cardinality(UrlMatchStarts(t, FALSE)) > 2 - fl THEN 1 ELSE 0)
      + (IF \E w \in Pieces(low, "space") :
               PieceCount(low, "space", w) > 3 - fl THEN 1 ELSE 0)
      + (IF Len(t) > 500 - 20 * s THEN 1 ELSE 0)
      + (IF \E k \in 1..Len(recent) :
               /\ recent[k].text # <<>>
               /\ RatGt(ClaimSimilarity(t, recent[k].text), <<80 - 2 * s, 100>>)
         THEN 1 ELSE 0)
ClaimThreshold(s) == IF s < 5 THEN 2 ELSE IF s = 5 THEN 2 ELSE 1

\* C1: for every non-empty text, every recentMessages and every sensitivity
\* in 1..10, isSpam returns true exactly when at least max(1, floor(3-2f))
\* of the six signals are true.
C1_VerdictIsSignalCount ==
    (sensitivity > 0 /\ text # <<>>) =>
        (spamResult <=>
            ClaimSignals(text, recentMessages, sensitivity)
                >= ClaimThreshold(sensitivity))

\* C9: isSpam is monotone in sensitivity: true at s implies true at every
\* s' with s < s' <= 10, for the same text and recentMessages.
C9_MonotoneInSensitivity ==
    (sensitivity > 0 /\ spamResult) =>
        \A s2 \in (sensitivity + 1)..10 : isSpam(text, recentMessages, s2)

\* C12: 'AAAAAAAAA http://x.co http://y.co http://z.co' at sensitivity 10
\* with no recent messages is classified as spam, and both the caps-ratio
\* signal and the URL-burst signal are true for it.
C12_CapsAndUrls ==
    (text = EndToEndText /\ recentMessages = <<>> /\ sensitivity = 10) =>
        /\ spamResult
        /\ spamCaps(text, sensitivity)
        /\ spamUrls(text, sensitivity)

\* C12 as the code has it: the message is classified as spam through the
\* URL signal (3 links) and the repeated-character signal (the run of A);
\* the caps-ratio signal is false, 9 capitals in 30 letters.
C12_UrlsAndRepeats ==
    (text = EndToEndText /\ recentMessages = <<>> /\ sensitivity = 10) =>
        /\ spamResult
        /\ spamUrls(text, sensitivity)
        /\ spamRepeats(text, sensitivity)
        /\ ~spamCaps(text, sensitivity)
        /\ CountChars(text, "upper") = 9
        /\ CountChars(text, "alpha") = 30
        /\ spamScore(text, recentMessages, sensitivity) = 2

C12_Witness ==
    /\ text = EndToEndText
    /\ recentMessages = <<>>
    /\ sensitivity = 10
    /\ spamResult

\* C9 witness: a text judged spam at a sensitivity below 10 that is not
\* spam at the sensitivity just below.
C9_Witness ==
    /\ sensitivity > 1
    /\ sensitivity < 10
    /\ spamResult
    /\ ~isSpam(text, recentMessages, sensitivity - 1)

\* ---------------------------- specification: containsBannedContent
Rule(c, k, sev) == [content |-> c, content_type |-> k, severity |-> sev]
BcRules ==
    { Rule(<<"a">>, "NONE", 1),
      Rule(<<"a">>, "WORD", 1),
      Rule(<<"a">>, "WORD", 3),
      Rule(<<"a">>, "PHRASE", 1),
      Rule(<<"a">>, "LINK", 1),
      Rule(<<"a","b">>, "WORD", 3),
      Rule(<<"a","b">>, "PHRASE", 5),
      Rule(<<"a","b">>, "REGEX", 3),
      Rule(<<"a","b">>, "LINK", 5),
      Rule(<<"(","a">>, "REGEX", 5),
      Rule(<<>>, "WORD", 1) }
BcTexts ==
    { <<"x","a","b","y">>,
      <<" ","a">>,
      <<"a"," ","b">>,
      <<"A","B">>,
      <<"h","t","t","p",":","/","/","A","B"," ","c">>,
      <<"x">> }

BcInit ==
    /\ bcText \in BcTexts
    /\ bannedContent \in SeqsUpTo(BcRules, MaxRules)
    /\ bcCalled = FALSE
    /\ bcResult = <<>>
    /\ SetIdle
    /\ SimIdle
    /\ SpamIdle
    /\ CacheIdle
    /\ ModIdle

containsBannedContentCall ==
    /\ ~bcCalled
    /\ bcCalled' = TRUE
    /\ bcResult' = containsBannedContent(bcText, bannedContent)
    /\ UNCHANGED <<bcText, bannedContent, setVars,
                   simVars, spamVars, cacheVars, modVars>>

BcNext == containsBannedContentCall

SpecMatch == BcInit /\ [][BcNext]_vars

\* the rules of the list that match the text
MatchingRules ==
    {bannedContent[k] : k \in {j \in 1..Len(bannedContent) :
                                   ruleMatches(bannedContent[j], bcText)}}

\* C2: containsBannedContent returns a rule of the list that matches the
\* text and whose severity is at least that of every rule of the list that
\* matches, and it returns null exactly when no rule matches.
C2_HighestSeverityMatch ==
    bcCalled =>
        /\ (bcResult = <<>>) <=> (MatchingRules = {})
        /\ bcResult # <<>> =>
              /\ bcResult[1] \in MatchingRules
              /\ \A r \in MatchingRules : r.severity <= bcResult[1].severity

\* C2 witness: the example of the specification: for the rules [{'a',
\* severity 1}, {'ab', severity 5, PHRASE}] and the text 'xaby' the
\* severity-5 rule is returned.
C2_Witness ==
    /\ bcCalled
    /\ bcText = <<"x","a","b","y">>
    /\ bannedContent = <<Rule(<<"a">>, "PHRASE", 1), Rule(<<"a","b">>, "PHRASE", 5)>>
    /\ bcResult = <<Rule(<<"a","b">>, "PHRASE", 5)>>

\* the positions of the REGEX rules whose pattern does not compile
InvalidRegexRules ==
    {i \in 1..Len(bannedContent) :
        /\ bannedContent[i].content_type = "REGEX"
        /\ ~regexCompiles(bannedContent[i].content)}

\* C13: a REGEX rule whose pattern does not compile is skipped: it is never
\* the rule returned, and whenever the list holds such a rule and a rule of
\* lower severity that matches the text, containsBannedContent still
\* returns a matching rule at least as severe as that one.
C13_InvalidRegexSkipped ==
    bcCalled =>
        \A i \in InvalidRegexRules :
            /\ bcResult # <<bannedContent[i]>>
            /\ \A j \in 1..Len(bannedContent) :
                  (/\ bannedContent[j].severity < bannedContent[i].severity
                   /\ ruleMatches(bannedContent[j], bcText))
                  => /\ bcResult # <<>>
                     /\ bcResult[1] \in MatchingRules
                     /\ bcResult[1].severity >= bannedContent[j].severity

\* C13 witness: the pattern '(a' of severity 5 does not compile and the
\* PHRASE rule 'a' of severity 1 is returned for the text 'xaby'.
C13_Witness ==
    /\ bcCalled
    /\ bcText = <<"x","a","b","y">>
    /\ bannedContent = <<Rule(<<"(","a">>, "REGEX", 5), Rule(<<"a">>, "PHRASE", 1)>>
    /\ InvalidRegexRules = {1}
    /\ bcResult = <<Rule(<<"a">>, "PHRASE", 1)>>

\* the tokens of the text: its maximal runs of word characters, and the
\* empty token that the split yields in front of a leading and after a
\* trailing separator
IsToken(a, b) ==
    /\ \A k \in a..b : IsWordCh(bcText[k])
    /\ IF a <= b
       THEN /\ (a = 1 \/ ~IsWordCh(bcText[a - 1]))
            /\ (b = Len(bcText) \/ ~IsWordCh(bcText[b + 1]))
       ELSE \/ (a = 1 /\ ~IsWordCh(bcText[1]))
            \/ (a = Len(bcText) + 1 /\ ~IsWordCh(bcText[Len(bcText)]))
\* some token of the text equals the pattern, ignoring case
TokenEquals(pattern) ==
    \E a \in 1..(Len(bcText) + 1) : \E b \in (a - 1)..Len(bcText) :
        /\ IsToken(a, b)
        /\ b - a + 1 = Len(pattern)
        /\ \A k \in 1..Len(pattern) :
              ToLowerChar(bcText[a + k - 1]) = ToLowerChar(pattern[k])
\* the pattern occurs inside a longer token of the text and equals none
ProperSubstringOnly(pattern) ==
    /\ pattern # <<>>
    /\ Includes(toLowerCase(bcText), toLowerCase(pattern))
    /\ ~TokenEquals(pattern)

\* C14: a WORD rule is returned only when a token of the text equals its
\* pattern ignoring case, and when a token does, a rule at least as severe
\* is returned; a single WORD rule is returned exactly when a token equals
\* its pattern, so not for a pattern that is only a proper substring of a
\* token.
C14_WordMatchesToken ==
    bcCalled =>
        \A i \in 1..Len(bannedContent) :
            bannedContent[i].content_type = "WORD" =>
                /\ bcResult = <<bannedContent[i]>>
                      => TokenEquals(bannedContent[i].content)
                /\ TokenEquals(bannedContent[i].content)
                      => /\ bcResult # <<>>
                         /\ bcResult[1].severity >= bannedContent[i].severity
                /\ Len(bannedContent) = 1
                      => ((bcResult = bannedContent)
                            <=> TokenEquals(bannedContent[i].content))

\* C14 witness: the WORD rule 'a' is alone in the list and the text 'xaby'
\* holds it only inside the token 'xaby': nothing is returned.
C14_Witness ==
    /\ bcCalled
    /\ bcText = <<"x","a","b","y">>
    /\ bannedContent = <<Rule(<<"a">>, "WORD", 1)>>
    /\ ProperSubstringOnly(<<"a">>)
    /\ bcResult = <<>>

\* ----------------------------- specification: the group settings
SettingsVersions == {"plain", "create", "validate"}

\* the row that holds the defaults
DefaultRow == [exists |-> TRUE, spam_sensitivity |-> 5, max_warnings |-> 3,
               mute_duration |-> 60, ban_duration |-> 1440]
\* a row with other values, as an earlier run may have left it
CustomRow == [exists |-> TRUE, spam_sensitivity |-> 8, max_warnings |-> 2,
              mute_duration |-> 30, ban_duration |-> 720]
\* what the table may hold for a chat when the bot starts
StoredRows == {NoRow, DefaultRow, CustomRow}

SetInit ==
    /\ settingsVersion \in SettingsVersions
    /\ groupSettings \in [Chats -> StoredRows]
    /\ gsOutcome = GsIdle
    /\ bcText = <<>> /\ bannedContent = <<>> /\ bcCalled = FALSE /\ bcResult = <<>>
    /\ SimIdle
    /\ SpamIdle
    /\ CacheIdle
    /\ ModIdle

\* a handler reads the settings of a chat
getGroupSettingsCall ==
    /\ \E c \in Chats :
          LET g == getGroupSettings(settingsVersion, groupSettings, c)
          IN /\ groupSettings' = g.table
             /\ gsOutcome' = [called |-> TRUE, chat |-> c,
                              hadRow |-> groupSettings[c].exists,
                              kind |-> g.kind, row |-> g.row]
    /\ UNCHANGED <<settingsVersion, bcText, bannedContent, bcCalled, bcResult,
                   simVars, spamVars, cacheVars, modVars>>

\* the settings command of an administrator: getGroupSettings (an error ends
\* the command), then updateGroupSettings(chatId, {...settings, key: value})
settingsCommand ==
    /\ \E c \in Chats :
          LET g == getGroupSettings(settingsVersion, groupSettings, c)
          IN groupSettings' =
                IF g.kind = "throws" THEN g.table
                ELSE updateGroupSettings(settingsVersion, g.table, c,
                                         SpreadOfRow).table
    /\ gsOutcome' = GsIdle
    /\ UNCHANGED <<settingsVersion, bcText, bannedContent, bcCalled, bcResult,
                   simVars, spamVars, cacheVars, modVars>>

SetNext == getGroupSettingsCall \/ settingsCommand

SpecSettings == SetInit /\ [][SetNext]_vars

\* C17: getGroupSettings on a chat with no settings row creates the row
\* with the defaults (5, 3, 60, 1440) and returns it; it never returns an
\* empty result; a read of a chat that has a row returns that row.
C17_DefaultsCreatedAndReturned ==
    gsOutcome.called =>
        /\ gsOutcome.kind # "undefined"
        /\ ~gsOutcome.hadRow =>
              /\ gsOutcome.kind = "row"
              /\ gsOutcome.row = DefaultRow
              /\ groupSettings[gsOutcome.chat] = DefaultRow
        /\ gsOutcome.hadRow =>
              /\ gsOutcome.kind = "row"
              /\ gsOutcome.row = groupSettings[gsOutcome.chat]

\* C17, what the revisions do on a chat with no row: the first and the
\* validating one return undefined and create nothing; the creating one
\* creates the row with the defaults and raises; every revision returns the
\* stored row of a chat that has one.
C17_UndefinedOrThrows ==
    gsOutcome.called =>
        /\ ~gsOutcome.hadRow =>
              IF settingsVersion = "create"
              THEN /\ gsOutcome.kind = "throws"
                   /\ groupSettings[gsOutcome.chat] = DefaultRow
              ELSE /\ gsOutcome.kind = "undefined"
                   /\ groupSettings[gsOutcome.chat] = NoRow
        /\ gsOutcome.hadRow =>
              /\ gsOutcome.kind = "row"
              /\ gsOutcome.row = groupSettings[gsOutcome.chat]

\* C17 witness: the creating revision was asked for the settings of a chat
\* without a row: the row now holds the defaults and the call raised.
C17_Witness ==
    /\ settingsVersion = "create"
    /\ gsOutcome.called
    /\ ~gsOutcome.hadRow
    /\ gsOutcome.kind = "throws"
    /\ groupSettings[gsOutcome.chat] = DefaultRow

\* ------------------- specification: isSpam on values of any type
JsTexts ==
    { JsUndefined, JsNull, JsNumber(<<"0">>), JsNumber(<<"5">>), JsObject,
      JsString(<<>>), JsString(PieceCapsRun), JsString(PieceWord) }
JsEntries ==
    { JsEntry(JsNull, JsUndefined),
      JsEntry(JsUndefined, JsUndefined),
      JsEntry(JsString(PieceWord), JsUndefined),
      JsEntry(JsObject, JsUndefined),
      JsEntry(JsObject, JsNumber(<<"5">>)),
      JsEntry(JsObject, JsString(PieceCapsRun)) }
JsWindows ==
    {[type |-> "array", items |-> w] : w \in SeqsUpTo(JsEntries, 2)}
        \cup {[type |-> ty, items |-> <<>>] :
                 ty \in {"undefined", "null", "object", "number"}}

JsInit ==
    /\ jsText \in JsTexts
    /\ jsRecent \in JsWindows
    /\ jsSensitivity = 0
    /\ jsOutcome = [threw |-> FALSE, value |-> FALSE]
    /\ text = <<>> /\ recentMessages = <<>> /\ sensitivity = 0 /\ spamResult = FALSE
    /\ SimIdle
    /\ BcIdle
    /\ CacheIdle
    /\ ModIdle

isSpamAnyCall ==
    /\ jsSensitivity = 0
    /\ \E s \in 1..10 :
          /\ jsSensitivity' = s
          /\ jsOutcome' = isSpamAny(jsText, jsRecent, s)
    /\ UNCHANGED <<jsText, jsRecent, text, recentMessages, sensitivity, spamResult,
                   simVars, bcVars, cacheVars, modVars>>

JsNext == isSpamAnyCall

SpecSpamAny == JsInit /\ [][JsNext]_vars

\* C11: isSpam never throws: when the evaluation raises an error (a text
\* that is not a string, a recentMessages value or entry that is not what
\* the code expects), the call returns false.
C11_FailOpen ==
    jsSensitivity > 0 =>
        /\ ~jsOutcome.threw
        /\ isSpamBody(jsText, jsRecent, jsSensitivity).err => ~jsOutcome.value

\* C11 witness: a text that the other patterns judge spam, with a null
\* entry in recentMessages: the error is swallowed and the call returns false.
C11_Witness ==
    /\ jsSensitivity > 0
    /\ jsText = JsString(PieceCapsRun)
    /\ isSpam(jsText.str, <<>>, jsSensitivity)
    /\ isSpamBody(jsText, jsRecent, jsSensitivity).err
    /\ ~jsOutcome.threw
    /\ ~jsOutcome.value

\* ------------------- specification: the recent-message window
\* handleMessage, as far as the window is concerned: checkSpam on the
\* incoming message, then either a return without caching (spam, or banned
\* content) or updateMessageCache.
CacheTexts == { <<>>, <<"a">>, <<"b">> }

RECURSIVE cacheEntries(_, _)
cacheEntries(cache, us) ==
    IF us = {} THEN 0
    ELSE LET u == CHOOSE x \in us : TRUE
         IN Len(cache[u]) + cacheEntries(cache, us \ {u})

CacheInit ==
    /\ CacheIdle
    /\ SimIdle
    /\ SpamIdle
    /\ BcIdle
    /\ ModIdle

\* time passes between two messages
CacheTick ==
    /\ csSensitivity = 0
    /\ now < MaxTicks * TickMs
    /\ now' = now + TickMs
    /\ UNCHANGED <<hm, messageCache, csMsg, csSensitivity, csResult,
                   simVars, spamVars, bcVars, modVars>>

\* handleMessage reaches the anti-spam check for a message
checkSpamCall ==
    /\ csSensitivity = 0
    /\ \E u \in Users, t \in CacheTexts, s \in 1..10 :
          /\ csMsg' = [from |-> u, text |-> t]
          /\ csSensitivity' = s
          /\ csResult' = checkSpam([from |-> u, text |-> t], messageCache, s, now)
    /\ UNCHANGED <<hm, now, messageCache, simVars, spamVars, bcVars, modVars>>

\* the message was spam, or (having a text) matched banned content:
\* handleMessage returns without caching it
handleMessageReturn ==
    /\ csSensitivity > 0
    /\ csResult \/ csMsg.text # <<>>
    /\ csMsg' = [from |-> "u1", text |-> <<>>]
    /\ csSensitivity' = 0
    /\ csResult' = FALSE
    /\ UNCHANGED <<hm, now, messageCache, simVars, spamVars, bcVars, modVars>>

\* the message passed both checks and is added to its sender's window
updateMessageCacheCall ==
    /\ csSensitivity > 0
    /\ ~csResult
    /\ cacheEntries(updateMessageCache(csMsg, messageCache, now), Users) <= MaxWindow
    /\ messageCache' = updateMessageCache(csMsg, messageCache, now)
    /\ csMsg' = [from |-> "u1", text |-> <<>>]
    /\ csSensitivity' = 0
    /\ UNCHANGED <<hm, now, csResult, simVars, spamVars, bcVars, modVars>>

CacheNext ==
    CacheTick \/ checkSpamCall \/ handleMessageReturn \/ updateMessageCacheCall

SpecCache == CacheInit /\ [][CacheNext]_vars

\* C10: in the live path a higher sensitivity is stricter: for a fixed
\* sender window and message, if checkSpam reports spam at sensitivity s it
\* reports spam at every higher sensitivity.
C10_CheckSpamMonotone ==
    (csSensitivity > 0 /\ csResult) =>
        \A s2 \in (csSensitivity + 1)..10 : checkSpam(csMsg, messageCache, s2, now)

\* C15: every insertion into a sender's window leaves that window holding
\* the inserted message and only entries younger than 60000 ms at the time
\* of the insertion.
C15_WindowFreshAfterInsert ==
    [][updateMessageCacheCall =>
          LET window == messageCache'[csMsg.from]
          IN /\ Len(window) > 0
             /\ window[Len(window)] = [text |-> csMsg.text, timestamp |-> now]
             /\ \A k \in 1..Len(window) :
                   now' - window[k].timestamp < WindowMs]_vars

\* C15 witness: at 60000 ms a message of u1 has just been inserted (its
\* timestamp is the current time): the window of u1 holds it and the entry
\* written at 30000 ms and no entry written at 0 ms, while the window of
\* u2, which saw no insertion since, still holds an entry that is 60000 ms
\* old.
C15_Witness ==
    /\ now = 2 * TickMs
    /\ csSensitivity = 0
    /\ messageCache["u1"] = << [text |-> <<>>, timestamp |-> TickMs],
                               [text |-> <<>>, timestamp |-> 2 * TickMs] >>
    /\ messageCache["u2"] = << [text |-> <<>>, timestamp |-> 0] >>

\* ------------------------------------ specification: handleMessage
\* config.enableAntiSpam and config.enableContentFilter
enableAntiSpam == TRUE
enableContentFilter == TRUE

\* mutant: no return after handleSpam, the content check follows
spamBranchFallsThrough(isSpamMessage) == FALSE

\* if (isSpamMessage) { await handleSpam(bot, msg, settings); return; }
spamBranchReturns(isSpamMessage) == isSpamMessage

\* the content filter check of handleMessage: the calls it makes for the
\* message and whether handleMessage goes on to updateMessageCache
contentCheck(msg, rules) ==
    IF enableContentFilter /\ msg.text # <<>>
    THEN IF containsBannedContent(msg.text, rules) # <<>>
         THEN [calls |-> <<"getBannedContent", "containsBannedContent",
                           "handleBannedContent">>, goesOn |-> FALSE]
         ELSE [calls |-> <<"getBannedContent", "containsBannedContent">>,
               goesOn |-> TRUE]
    ELSE [calls |-> <<>>, goesOn |-> TRUE]

\* the anti-spam check of handleMessage
spamCheck(msg, cache, s, t) ==
    IF enableAntiSpam
    THEN LET isSpamMessage == checkSpam(msg, cache, s, t)
         IN [calls |-> IF isSpamMessage THEN <<"checkSpam", "handleSpam">>
                       ELSE <<"checkSpam">>,
             goesOn |-> ~spamBranchReturns(isSpamMessage)]
    ELSE [calls |-> <<>>, goesOn |-> TRUE]

\* handleMessage(bot, msg, messageCache): the calls made for the message,
\* in order, and the cache it leaves. A rejected getGroupSettings ends the
\* handling (the outer catch apologises in the chat); a message of an
\* administrator is skipped; the handlers never throw.
handleMessage(msg, admin, settingsFail, cache, rules, s, t) ==
    IF settingsFail
    THEN [calls |-> <<"getGroupSettings">>, cache |-> cache]
    ELSE IF admin
    THEN [calls |-> <<"getGroupSettings", "isAdmin">>, cache |-> cache]
    ELSE LET sp == spamCheck(msg, cache, s, t)
             ct == IF sp.goesOn THEN contentCheck(msg, rules)
                   ELSE [calls |-> <<>>, goesOn |-> FALSE]
             head == <<"getGroupSettings", "isAdmin">> \o sp.calls \o ct.calls
         IN IF ct.goesOn
            THEN [calls |-> Append(head, "updateMessageCache"),
                  cache |-> updateMessageCache(msg, cache, t)]
            ELSE [calls |-> head, cache |-> cache]

\* the rule lists and the sensitivities (settings?.spam_sensitivity ||
\* config.defaultSpamSensitivity) of this specification
HmRuleLists ==
    { <<>>,
      <<Rule(<<"a">>, "WORD", 1)>>,
      <<Rule(<<"b">>, "PHRASE", 1), Rule(<<"a">>, "REGEX", 5)>> }
HmSensitivities == {1, 5}

HmInit ==
    /\ CacheIdle
    /\ bcText = <<>> /\ bcCalled = FALSE /\ bcResult = <<>>
    /\ bannedContent \in HmRuleLists
    /\ SetIdle
    /\ SimIdle
    /\ SpamIdle
    /\ ModIdle

\* bot.on('message') hands a message to handleMessage
handleMessageCall ==
    /\ \E u \in Users, t \in CacheTexts, admin \in BOOLEAN,
          settingsFail \in BOOLEAN, s \in HmSensitivities :
          LET msg == [from |-> u, text |-> t]
              r   == handleMessage(msg, admin, settingsFail, messageCache,
                                   bannedContent, s, now)
          IN /\ cacheEntries(r.cache, Users) <= MaxWindow
             /\ messageCache' = r.cache
             /\ hm' = [called |-> TRUE, from |-> u, text |-> t,
                       admin |-> admin, calls |-> r.calls,
                       cached |-> r.cache # messageCache]
    /\ UNCHANGED <<now, csMsg, csSensitivity, csResult,
                   simVars, spamVars, bcVars, modVars>>

HmNext == handleMessageCall

SpecHandle == HmInit /\ [][HmNext]_vars

\* the positions of a call in the calls of the last handleMessage
CallsOf(name) == {k \in 1..Len(hm.calls) : hm.calls[k] = name}

\* C26: for a message of a non-administrator the spam check comes before
\* the banned-content check, at most one of handleSpam and
\* handleBannedContent is called, and when the message is judged spam the
\* banned-content matcher is not run for it.
C26_FirstViolationWins ==
    (hm.called /\ ~hm.admin) =>
        /\ \A i \in CallsOf("containsBannedContent") :
              \E j \in CallsOf("checkSpam") : j < i
        /\ Cardinality(CallsOf("handleSpam") \cup CallsOf("handleBannedContent"))
              <= 1
        /\ CallsOf("handleSpam") # {}
              => /\ CallsOf("containsBannedContent") = {}
                 /\ CallsOf("handleBannedContent") = {}
                 /\ ~hm.cached
        /\ CallsOf("handleBannedContent") # {}
              => /\ CallsOf("handleSpam") = {}
                 /\ ~hm.cached

\* C26 witness: a message that is spam and matches a banned rule as well:
\* handleSpam is called, the matcher is not.
C26_Witness ==
    /\ hm.called
    /\ ~hm.admin
    /\ hm.text # <<>>
    /\ containsBannedContent(hm.text, bannedContent) # <<>>
    /\ hm.calls = <<"getGroupSettings", "isAdmin", "checkSpam", "handleSpam">>

\* ------------------------------------------- the store and its queries
\* mutant: an upsert, the user's row of the same type is rewritten in place
logInfractionUpsert(rows, userId, type, action, duration, t) ==
    LET row  == [user_id |-> userId, type |-> type, action |-> action,
                 duration |-> duration, created_at |-> t,
                 expires_at |-> IF duration # NULL THEN t + duration ELSE NULL,
                 processed |-> FALSE]
        same == {i \in 1..Len(rows) :
                    rows[i].user_id = userId /\ rows[i].type = type}
    IN IF same = {} THEN Append(rows, row)
       ELSE [rows EXCEPT ![CHOOSE i \in same : \A j \in same : i <= j] = row]

\* INSERT INTO infractions ... of logInfraction: expires_at is NOW() plus the
\* duration, NULL when the duration is NULL
logInfraction(rows, userId, type, action, duration, t) ==
    Append(rows, [user_id |-> userId, type |-> type, action |-> action,
                  duration |-> duration, created_at |-> t,
                  expires_at |-> IF duration # NULL THEN t + duration ELSE NULL,
                  processed |-> FALSE])

\* getUserInfractions: every row of the user, whatever its type (as ids)
getUserInfractions(rows, userId) ==
    {i \in 1..Len(rows) : rows[i].user_id = userId}

\* the expiry test of the three revisions of getExpiredRestrictions
isExpired(r, t, version) ==
    IF version = "expires"
    THEN r.expires_at # NULL /\ r.expires_at <= t
    ELSE r.duration # NULL /\ r.created_at + r.duration <= t

\* the NOT EXISTS subquery, with supersession switched off
supersededNever(rows, i, t, version) == FALSE

\* the NOT EXISTS subquery of the three revisions
superseded(rows, i, t, version) ==
    IF version = "expires"
    THEN \E j \in 1..Len(rows) :
            /\ rows[j].user_id = rows[i].user_id
            /\ rows[j].type = rows[i].type
            /\ rows[j].expires_at # NULL
            /\ rows[j].expires_at > t
    ELSE \E j \in 1..Len(rows) :
            /\ rows[j].user_id = rows[i].user_id
            /\ rows[j].type = rows[i].type
            /\ rows[j].created_at > rows[i].created_at

\* getExpiredRestrictions: one result row per selected infraction and chat of
\* message_logs (the JOIN on user_id)
getExpiredRestrictions(rows, logs, t, version) ==
    {[id |-> i, user_id |-> rows[i].user_id, type |-> rows[i].type,
      created_at |-> rows[i].created_at, chat_id |-> c] :
        <<i, c>> \in
          {ic \in (1..Len(rows)) \X Chats :
              /\ rows[ic[1]].type \in {"BAN", "MUTE"}
              /\ isExpired(rows[ic[1]], t, version)
              /\ (version = "processed" => ~rows[ic[1]].processed)
              /\ ~superseded(rows, ic[1], t, version)
              /\ <<rows[ic[1]].user_id, ic[2]>> \in logs}}

\* getUserRestrictedChats: the chats the user has messages in, provided an
\* infraction of that type was written in the last 30 days
getUserRestrictedChats(rows, logs, userId, type, t) ==
    IF \E i \in 1..Len(rows) :
          /\ rows[i].user_id = userId
          /\ rows[i].type = type
          /\ rows[i].created_at >= t - RestrictedChatsWindow
    THEN {c \in Chats : <<userId, c>> \in logs}
    ELSE {}

\* removeRestriction(userId, type) as checkTemporaryBans calls it, with two
\* arguments. "interval": BAN clears users.is_banned; the MUTE statement has
\* two placeholders and one parameter and is rejected. "expires": the MUTE
\* statement inserts a row of type MUTE, action UNMUTE, duration 0 and no
\* expires_at. "processed": the BAN text holds two statements with
\* parameters and is rejected; the MUTE statement updates WHERE id = NULL,
\* that is no row.
removeRestriction(version, rows, banned, userId, type, t) ==
    CASE version = "interval" /\ type = "BAN" ->
            [ok |-> TRUE, rows |-> rows, banned |-> banned \ {userId}]
      [] version = "interval" /\ type = "MUTE" ->
            [ok |-> FALSE, rows |-> rows, banned |-> banned]
      [] version = "expires" /\ type = "BAN" ->
            [ok |-> TRUE, rows |-> rows, banned |-> banned \ {userId}]
      [] version = "expires" /\ type = "MUTE" ->
            [ok |-> TRUE,
             rows |-> Append(rows,
                        [user_id |-> userId, type |-> type, action |-> "UNMUTE",
                         duration |-> 0, created_at |-> t, expires_at |-> NULL,
                         processed |-> FALSE]),
             banned |-> banned]
      [] version = "processed" /\ type = "BAN" ->
            [ok |-> FALSE, rows |-> rows, banned |-> banned]
      [] OTHER ->
            [ok |-> TRUE, rows |-> rows, banned |-> banned]

\* ----------------------------- specification: moderation and the sweep
Durations == {2}
\* settings?.max_warnings as passed to the handler: 0 stands for a missing
\* or falsy value, replaced by config.maxWarnings
MaxWarningsSettings == {0, 2}
StoreVersions == {"interval", "expires", "processed"}
\* message_logs when the sweep is studied: who has posted where
LogConfigs == { {<<"u1", "c1">>, <<"u1", "c2">>},
                {<<"u1", "c1">>, <<"u2", "c1">>} }

Init ==
    /\ storeVersion \in StoreVersions
    /\ clock = 0
    /\ infractions = <<>>
    /\ messageLogs \in LogConfigs
    /\ bannedUsers = {}
    /\ sweepQueue = {}
    /\ sweepPrior = {}
    /\ resolved = {}
    /\ reLifted = {}
    /\ sweepLog = SweepLogIdle
    /\ race = RaceIdle
    /\ hbc = HbcIdle
    /\ SimIdle
    /\ SpamIdle
    /\ BcIdle
    /\ CacheIdle

\* a minute passes
Tick ==
    /\ clock < MaxClock
    /\ clock' = clock + 1
    /\ hbc' = HbcIdle
    /\ UNCHANGED <<storeVersion, infractions, messageLogs, bannedUsers,
                   sweepVars, simVars, spamVars, bcVars, cacheVars>>

\* a row written by a handler: the store's clock moves on, and the history
\* of resolutions "with nothing written since" starts afresh
handlerWrites(rows) ==
    /\ Len(infractions) < MaxInfractions
    /\ clock < MaxClock
    /\ infractions' = rows
    /\ clock' = clock + 1
    /\ resolved' = {}
    /\ reLifted' = {}
    /\ sweepLog' = SweepLogIdle

\* '!warn': logInfraction(target, 'WARN', reason, 'WARN', null, admin)
warnCommand ==
    /\ \E u \in Users :
          handlerWrites(logInfraction(infractions, u, "WARN", "WARN", NULL, clock))
    /\ hbc' = HbcIdle
    /\ UNCHANGED <<storeVersion, messageLogs, bannedUsers, sweepQueue,
                   sweepPrior, race, simVars, spamVars, bcVars, cacheVars>>

\* '!mute': logInfraction(target, 'MUTE', reason, 'MUTE', duration, admin)
muteCommand ==
    /\ \E u \in Users, d \in Durations :
          handlerWrites(logInfraction(infractions, u, "MUTE", "MUTE", d, clock))
    /\ hbc' = HbcIdle
    /\ UNCHANGED <<storeVersion, messageLogs, bannedUsers, sweepQueue,
                   sweepPrior, race, simVars, spamVars, bcVars, cacheVars>>

\* banUser: users.is_banned = true, then logInfraction(.., 'BAN', .., 'BAN', ..)
banUser ==
    /\ \E u \in Users, d \in Durations :
          /\ handlerWrites(logInfraction(infractions, u, "BAN", "BAN", d, clock))
          /\ bannedUsers' = bannedUsers \cup {u}
    /\ hbc' = HbcIdle
    /\ UNCHANGED <<storeVersion, messageLogs, sweepQueue,
                   sweepPrior, race, simVars, spamVars, bcVars, cacheVars>>

\* the number of a user's rows whose action is WARN
warnCount(rows, u) ==
    Cardinality({i \in getUserInfractions(rows, u) : rows[i].action = "WARN"})

\* warningCount >= (settings?.max_warnings || config.maxWarnings), where
\* warningCount is the length of the user's whole history
escalates(warningCount, max) == warningCount >= max

\* until_date of the three restrictions of the handlers, in minutes from
\* now: 60 * 10 and 60 * 60 seconds in handleSpam, 60 * 60 * 24 seconds in
\* handleBannedContent
spamMuteMinutes == 10
spamBanMinutes == 60
contentBanMinutes == 1440

\* mutant: the notification shows warningCount
shownWarningPlain(warningCount) == warningCount

\* `Warning ${warningCount + 1}/${max}`
shownWarning(warningCount) == warningCount + 1

\* settings?.mute_duration as handleSpam passes it to logInfraction, in
\* minutes
SpamMuteDurations == {2, 10}

\* mutant: catch (error) { logger.error(...); throw error; }
handlerRethrows(failed) == failed # "none"

\* catch (error) { logger.error('Error handling ...', error); } of
\* handleSpam and handleBannedContent: whatever rejected, the handler
\* returns normally
handlerThrows(failed) == FALSE

\* the calls that can reject in a run of a handler
HandlerFailures == {"none", "delete", "write", "restrict"}

\* handleMessage finds banned content and calls handleBannedContent (the
\* message itself was logged by bot.on('message') before). failed names the first call that rejects:
\* "delete" (bot.deleteMessage), "write" (logInfraction), "restrict"
\* (bot.banChatMember) or "none"; everything sits in one try block, so a
\* rejection ends the handler. action is the reaction requested from the
\* platform, enforced whether a requested restriction was accepted.
handleBannedContent ==
    \E u \in Users, m \in MaxWarningsSettings, failed \in HandlerFailures :
       LET max  == IF m = 0 THEN maxWarnings ELSE m
           rows == logInfraction(infractions, u, "BANNED_CONTENT", "WARN",
                                 NULL, clock)
           warningCount == Cardinality(getUserInfractions(rows, u))
           reached == failed \in {"none", "restrict"}
           action  == IF ~reached THEN "none"
                      ELSE IF escalates(warningCount, max) THEN "ban"
                      ELSE "warn"
       IN /\ failed = "restrict" => action = "ban"
          /\ IF reached
             THEN handlerWrites(rows)
             ELSE UNCHANGED <<infractions, clock, resolved, reLifted, sweepLog>>
          /\ hbc' = [called |-> TRUE, handler |-> "content",
                     max_warnings |-> max,
                     priorWarns |-> warnCount(infractions, u),
                     priorClass |-> warnCount(infractions, u),
                     failed |-> failed,
                     written |-> reached,
                     action |-> action,
                     enforced |-> action = "ban" /\ failed = "none",
                     threw |-> handlerThrows(failed),
                     duration |-> NULL,
                     until |-> IF action = "ban" THEN contentBanMinutes
                               ELSE NULL,
                     shown |-> IF action = "warn"
                               THEN shownWarning(warningCount) ELSE NULL]
          /\ UNCHANGED <<storeVersion, messageLogs, bannedUsers, sweepQueue,
                         sweepPrior, race, simVars, spamVars, bcVars, cacheVars>>

\* the number of a user's rows whose type is SPAM
spamCount(rows, u) ==
    Cardinality({i \in getUserInfractions(rows, u) : rows[i].type = "SPAM"})

\* handleMessage finds spam and calls handleSpam: deleteMessage,
\* logInfraction(.., 'SPAM', .., 'MUTE', duration), getUserInfractions, then banChatMember (1 hour) at the threshold and
\* restrictChatMember (10 minutes) below it, all in one try block.
handleSpam ==
    \E u \in Users, m \in MaxWarningsSettings, d \in SpamMuteDurations,
       failed \in HandlerFailures :
       LET max  == IF m = 0 THEN maxWarnings ELSE m
           rows == logInfraction(infractions, u, "SPAM", "MUTE", d, clock)
           warningCount == Cardinality(getUserInfractions(rows, u))
           reached == failed \in {"none", "restrict"}
           action  == IF ~reached THEN "none"
                      ELSE IF escalates(warningCount, max) THEN "ban"
                      ELSE "mute"
       IN /\ IF reached
             THEN handlerWrites(rows)
             ELSE UNCHANGED <<infractions, clock, resolved, reLifted, sweepLog>>
          /\ hbc' = [called |-> TRUE, handler |-> "spam",
                     max_warnings |-> max,
                     priorWarns |-> warnCount(infractions, u),
                     priorClass |-> spamCount(infractions, u),
                     failed |-> failed,
                     written |-> reached,
                     action |-> action,
                     enforced |-> failed = "none",
                     threw |-> handlerThrows(failed),
                     duration |-> IF reached THEN d ELSE NULL,
                     until |-> IF action = "ban" THEN spamBanMinutes
                               ELSE IF action = "mute" THEN spamMuteMinutes
                               ELSE NULL,
                     shown |-> IF action = "mute" /\ failed = "none"
                               THEN shownWarning(warningCount) ELSE NULL]
          /\ UNCHANGED <<storeVersion, messageLogs, bannedUsers, sweepQueue,
                         sweepPrior, race, simVars, spamVars, bcVars, cacheVars>>

\* checkTemporaryBans, up to the loop: getExpiredRestrictions; nothing
\* selected ends the run
sweepStart ==
    /\ sweepQueue = {}
    /\ sweepQueue' =
          getExpiredRestrictions(infractions, messageLogs, clock, storeVersion)
    /\ sweepPrior' = IF sweepQueue' = {} THEN {} ELSE resolved
    /\ reLifted' = {}
    /\ hbc' = HbcIdle
    /\ UNCHANGED <<storeVars, resolved, sweepLog, race,
                   simVars, spamVars, bcVars, cacheVars>>

\* checkTemporaryBans, one turn of the outer loop, for the next result row
\* (ORDER BY created_at DESC): getUserRestrictedChats, which may reject (the
\* row is then skipped); a lift request for each chat, a rejection being
\* logged; then removeRestriction(user_id, type), whose rejection is logged
sweepStep(restriction, chatsOk, storeOk) ==
    /\ sweepQueue # {}
    /\ LET restrictedChats ==
                  getUserRestrictedChats(infractions, messageLogs,
                      restriction.user_id, restriction.type, clock)
              r == removeRestriction(storeVersion, infractions, bannedUsers,
                       restriction.user_id, restriction.type, clock)
          IN /\ \A other \in sweepQueue :
                   other.created_at <= restriction.created_at
             /\ sweepQueue' = sweepQueue \ {restriction}
             /\ sweepPrior' = IF sweepQueue' = {} THEN {} ELSE sweepPrior
             /\ reLifted' = IF /\ chatsOk
                               /\ restrictedChats # {}
                               /\ restriction.id \in sweepPrior
                            THEN reLifted \cup {restriction.id}
                            ELSE reLifted
             /\ IF chatsOk /\ storeOk /\ r.ok
                THEN /\ infractions' = r.rows
                     /\ bannedUsers' = r.banned
                     /\ resolved' = resolved \cup {restriction.id}
                     /\ IF r.rows # infractions
                        THEN /\ Len(infractions) < MaxInfractions
                             /\ clock < MaxClock
                             /\ clock' = clock + 1
                        ELSE UNCHANGED clock
                ELSE UNCHANGED <<infractions, bannedUsers, resolved, clock>>
    /\ hbc' = HbcIdle
    /\ UNCHANGED <<storeVersion, messageLogs, sweepLog, race,
                   simVars, spamVars, bcVars, cacheVars>>

\* one turn of the loop, whatever the platform and the store answer
sweepProcess ==
    \E restriction \in sweepQueue, chatsOk \in BOOLEAN, storeOk \in BOOLEAN :
        sweepStep(restriction, chatsOk, storeOk)

Next ==
    \/ Tick
    \/ muteCommand
    \/ banUser
    \/ sweepStart
    \/ sweepProcess

Spec == Init /\ [][Next]_vars

\* ------------------- specification: a run of the sweep as a whole
\* what a run does, in order: "lift" (unbanChatMember or restrictChatMember
\* for one chat), "remove" (removeRestriction) and "skip" (the row was left
\* when getUserRestrictedChats rejected); chat is "-" where none applies
Event(kind, id, chat, ok) == [kind |-> kind, id |-> id, chat |-> chat, ok |-> ok]

\* mutant: the loop over the chats without its try block: the first
\* rejected lift ends the loop
RECURSIVE liftEventsAbort(_, _, _)
liftEventsAbort(id, chats, liftFails) ==
    IF chats = {} THEN <<>>
    ELSE LET c == CHOOSE x \in chats : TRUE
         IN IF c \in liftFails THEN <<Event("lift", id, c, FALSE)>>
            ELSE <<Event("lift", id, c, TRUE)>>
                 \o liftEventsAbort(id, chats \ {c}, liftFails)

\* for (const chat of restrictedChats) { try { lift } catch { log } }: one
\* lift request per chat, rejected in the chats of liftFails
RECURSIVE liftEvents(_, _, _)
liftEvents(id, chats, liftFails) ==
    IF chats = {} THEN <<>>
    ELSE LET c == CHOOSE x \in chats : TRUE
         IN <<Event("lift", id, c, c \notin liftFails)>>
            \o liftEvents(id, chats \ {c}, liftFails)

\* for (const restriction of expiredRestrictions) { try { ... } catch { log } }
\* over the result rows, newest first: getUserRestrictedChats (rejected for
\* the rows of infraction `rejected`), the lifts, then removeRestriction
\* (rejected by the store when storeOk is false)
RECURSIVE runSweep(_, _, _, _, _, _, _)
runSweep(queue, rows, banned, events, liftFails, rejected, storeOk) ==
    IF queue = {} THEN [rows |-> rows, banned |-> banned, events |-> events]
    ELSE LET c == CHOOSE x \in queue :
                      \A y \in queue : y.created_at <= x.created_at
             rest == queue \ {c}
         IN IF c.id = rejected
            THEN runSweep(rest, rows, banned,
                          Append(events, Event("skip", c.id, "-", FALSE)),
                          liftFails, rejected, storeOk)
            ELSE LET chats == getUserRestrictedChats(rows, messageLogs,
                                  c.user_id, c.type, clock)
                     r  == removeRestriction(storeVersion, rows, banned,
                                             c.user_id, c.type, clock)
                     ok == storeOk /\ r.ok
                 IN runSweep(rest,
                             IF ok THEN r.rows ELSE rows,
                             IF ok THEN r.banned ELSE banned,
                             events \o liftEvents(c.id, chats, liftFails)
                                    \o <<Event("remove", c.id, "-", ok)>>,
                             liftFails, rejected, storeOk)

\* checkTemporaryBans(bot), from the query to the end of the loop
checkTemporaryBans ==
    /\ sweepQueue = {}
    /\ LET selected == getExpiredRestrictions(infractions, messageLogs,
                                              clock, storeVersion)
       IN \E liftFails \in SUBSET Chats, storeOk \in BOOLEAN,
             rejected \in {0} \cup {c.id : c \in selected} :
          LET r == runSweep(selected, infractions, bannedUsers, <<>>,
                            liftFails, rejected, storeOk)
          IN /\ Len(r.rows) <= MaxInfractions
             /\ infractions' = r.rows
             /\ bannedUsers' = r.banned
             /\ sweepLog' = [ran |-> TRUE, selected |-> selected,
                             events |-> r.events]
    /\ hbc' = HbcIdle
    /\ UNCHANGED <<storeVersion, clock, messageLogs, sweepQueue, sweepPrior,
                   resolved, reLifted, race, simVars, spamVars, bcVars,
                   cacheVars>>

\* the moderation commands and the clock build the history, and one run of
\* the sweep is observed on it
RunNext ==
    \/ ~sweepLog.ran /\ Tick
    \/ ~sweepLog.ran /\ muteCommand
    \/ ~sweepLog.ran /\ banUser
    \/ ~sweepLog.ran /\ checkTemporaryBans

SpecSweep == Init /\ [][RunNext]_vars

\* the positions of the events of a kind for an infraction (and a chat)
EventsOf(kind, id) ==
    {k \in 1..Len(sweepLog.events) :
        sweepLog.events[k].kind = kind /\ sweepLog.events[k].id = id}
LiftsOf(id, chat) ==
    {k \in EventsOf("lift", id) : sweepLog.events[k].chat = chat}
\* the chats in which the user of infraction id has posted
ChatsOfInfraction(id) ==
    {c \in Chats : <<infractions[id].user_id, c>> \in messageLogs}
\* the result rows of the run that belong to infraction id
RowsOf(id) == {c \in sweepLog.selected : c.id = id}

\* C27: in a run of the sweep every result row is processed, whatever
\* failed for the rows before it, and for every row that reached the loop
\* over the chats a lift was requested in each chat of the user, whatever
\* the platform answered in the other chats.
C27_FailuresDoNotStopSweep ==
    sweepLog.ran =>
        \A id \in 1..Len(infractions) :
            /\ Cardinality(EventsOf("remove", id) \cup EventsOf("skip", id))
                  = Cardinality(RowsOf(id))
            /\ \A c \in ChatsOfInfraction(id) :
                  Cardinality(LiftsOf(id, c))
                      = Cardinality(EventsOf("remove", id))

\* C27 witness: a lift was rejected in one chat and requested in another
\* chat afterwards for the same infraction, removeRestriction followed, and
\* a row of another infraction was skipped before.
C27_Witness ==
    /\ sweepLog.ran
    /\ \E k, j, m \in 1..Len(sweepLog.events) :
          /\ k < j /\ j < m
          /\ sweepLog.events[k].kind = "lift"
          /\ ~sweepLog.events[k].ok
          /\ sweepLog.events[j].kind = "lift"
          /\ sweepLog.events[j].id = sweepLog.events[k].id
          /\ sweepLog.events[j].chat # sweepLog.events[k].chat
          /\ sweepLog.events[m].kind = "remove"
          /\ sweepLog.events[m].id = sweepLog.events[k].id
          /\ \E n \in 1..(k - 1) : sweepLog.events[n].kind = "skip"

\* C28: in a run of the sweep, removeRestriction is called exactly once
\* for every selected infraction that reached the loop over the chats, and
\* only after a lift was requested in every chat of its user.
C28_RemovedOnceAfterLifts ==
    sweepLog.ran =>
        \A id \in 1..Len(infractions) :
            (RowsOf(id) # {} /\ EventsOf("skip", id) = {}) =>
                /\ Cardinality(EventsOf("remove", id)) = 1
                /\ \A c \in ChatsOfInfraction(id) : LiftsOf(id, c) # {}
                /\ \A k \in EventsOf("lift", id), m \in EventsOf("remove", id) :
                      k < m

\* C28, the part the code keeps: every removeRestriction of a run comes after
\* a lift request in every chat of the user of its infraction.
C28_RemovalFollowsLifts ==
    sweepLog.ran =>
        \A id \in 1..Len(infractions) :
            \A m \in EventsOf("remove", id) :
                \A c \in ChatsOfInfraction(id) :
                    \E k \in LiftsOf(id, c) : k < m

\* C28 case: the user of a selected infraction has posted in two chats, and
\* removeRestriction ran twice for that one infraction.
C28_Witness ==
    /\ sweepLog.ran
    /\ \E id \in 1..Len(infractions) :
          /\ Cardinality(ChatsOfInfraction(id)) = 2
          /\ Cardinality(EventsOf("remove", id)) = 2

\* the lift requests of a run for a user, a chat and a kind of restriction
LiftsFor(u, c, type) ==
    {k \in 1..Len(sweepLog.events) :
        /\ sweepLog.events[k].kind = "lift"
        /\ sweepLog.events[k].chat = c
        /\ infractions[sweepLog.events[k].id].user_id = u
        /\ infractions[sweepLog.events[k].id].type = type}

\* C30: in a run of the sweep every user, chat and kind of restriction gets
\* at most one lift request.
C30_AtMostOneLift ==
    sweepLog.ran =>
        \A u \in Users, c \in Chats, type \in {"BAN", "MUTE"} :
            Cardinality(LiftsFor(u, c, type)) <= 1

\* C30 case: a user with messages in two chats whose restriction expired got
\* two lift requests for the same chat in one run.
C30_Witness ==
    /\ sweepLog.ran
    /\ \E u \in Users, c \in Chats, type \in {"BAN", "MUTE"} :
          /\ Cardinality({d \in Chats : <<u, d>> \in messageLogs}) = 2
          /\ Cardinality(LiftsFor(u, c, type)) = 2

\* ------------------- specification: a ban issued while a sweep is running
BanDurations == {2, 3}

\* the bookkeeping of a ban of user u: it is a ban "in the race" when the
\* sweep in progress holds a result row of an expired ban of u
racedBy(u) ==
    IF \E r \in sweepQueue : r.user_id = u /\ r.type = "BAN"
    THEN [race EXCEPT !.raced = @ \cup {u}, !.at = 0,
                      !.fresh = FALSE, !.done = FALSE]
    ELSE race

\* '!ban': queries.banUser(target, reason, duration, admin), then
\* bot.banChatMember(chat, target, {until_date: now + duration * 60})
banCommand ==
    /\ \E uc \in messageLogs, d \in BanDurations :
          /\ handlerWrites(logInfraction(infractions, uc[1], "BAN", "BAN", d,
                                         clock))
          /\ bannedUsers' = bannedUsers \cup {uc[1]}
          /\ race' = [racedBy(uc[1]) EXCEPT !.until[uc] = clock + d]
    /\ hbc' = HbcIdle
    /\ UNCHANGED <<storeVersion, messageLogs, sweepQueue, sweepPrior,
                   simVars, spamVars, bcVars, cacheVars>>

\* checkTemporaryBans, up to the loop, with the bookkeeping of the race: a
\* run that begins after the ban of a raced user is the next cycle
raceSweepStart ==
    /\ sweepQueue = {}
    /\ sweepQueue' =
          getExpiredRestrictions(infractions, messageLogs, clock, storeVersion)
    /\ sweepPrior' = IF sweepQueue' = {} THEN {} ELSE resolved
    /\ reLifted' = {}
    /\ race' = [race EXCEPT
                  !.fresh = race.raced # {} /\ sweepQueue' # {},
                  !.done = @ \/ (race.raced # {} /\ sweepQueue' = {})]
    /\ hbc' = HbcIdle
    /\ UNCHANGED <<storeVars, resolved, sweepLog,
                   simVars, spamVars, bcVars, cacheVars>>

\* checkTemporaryBans, one turn of the outer loop, with the platform's side:
\* bot.unbanChatMember ends the ban in every chat of getUserRestrictedChats
\* in which the request is not rejected (liftFails)
raceSweepStep(restriction, chatsOk, liftFails, storeOk) ==
    /\ sweepQueue # {}
    /\ LET restrictedChats ==
                  getUserRestrictedChats(infractions, messageLogs,
                      restriction.user_id, restriction.type, clock)
           r == removeRestriction(storeVersion, infractions, bannedUsers,
                    restriction.user_id, restriction.type, clock)
           lifted == IF chatsOk /\ restriction.type = "BAN"
                     THEN restrictedChats \ liftFails ELSE {}
       IN /\ \A other \in sweepQueue :
                other.created_at <= restriction.created_at
          /\ sweepQueue' = sweepQueue \ {restriction}
          /\ sweepPrior' = IF sweepQueue' = {} THEN {} ELSE sweepPrior
          /\ reLifted' = IF /\ chatsOk
                            /\ restrictedChats # {}
                            /\ restriction.id \in sweepPrior
                         THEN reLifted \cup {restriction.id}
                         ELSE reLifted
          /\ race' = [race EXCEPT
                        !.until = [uc \in Users \X Chats |->
                                     IF uc[1] = restriction.user_id
                                        /\ uc[2] \in lifted
                                     THEN 0 ELSE race.until[uc]],
                        !.at = IF restriction.user_id \in race.raced
                                  /\ lifted # {}
                               THEN clock ELSE @,
                        !.fresh = @ /\ sweepQueue' # {},
                        !.done = @ \/ (race.fresh /\ sweepQueue' = {})]
          /\ IF chatsOk /\ storeOk /\ r.ok
             THEN /\ infractions' = r.rows
                  /\ bannedUsers' = r.banned
                  /\ resolved' = resolved \cup {restriction.id}
                  /\ IF r.rows # infractions
                     THEN /\ Len(infractions) < MaxInfractions
                          /\ clock < MaxClock
                          /\ clock' = clock + 1
                     ELSE UNCHANGED clock
             ELSE UNCHANGED <<infractions, bannedUsers, resolved, clock>>
    /\ hbc' = HbcIdle
    /\ UNCHANGED <<storeVersion, messageLogs, sweepLog,
                   simVars, spamVars, bcVars, cacheVars>>

raceSweepProcess ==
    \E restriction \in sweepQueue, chatsOk \in BOOLEAN,
       liftFails \in SUBSET Chats, storeOk \in BOOLEAN :
        raceSweepStep(restriction, chatsOk, liftFails, storeOk)

RaceNext ==
    \/ Tick
    \/ banCommand
    \/ raceSweepStart
    \/ raceSweepProcess

SpecRace == Init /\ [][RaceNext]_vars

\* the platform holds a ban of the user in some chat
platformBanned(u) == \E c \in Chats : race.until[<<u, c>>] > clock
\* the history holds a ban of the user that has not expired
activeBan(u) ==
    \E i \in 1..Len(infractions) :
        /\ infractions[i].user_id = u
        /\ infractions[i].type = "BAN"
        /\ infractions[i].action = "BAN"
        /\ ~isExpired(infractions[i], clock, storeVersion)

\* C29: a user was banned while a sweep held an expired ban of theirs; once
\* the sweep after that one has ended, the user is banned on the platform
\* exactly when the history holds an unexpired ban of theirs.
C29_RestrictedIffActive ==
    (race.done /\ sweepQueue = {}) =>
        \A u \in race.raced : platformBanned(u) <=> activeBan(u)

\* C29 case: the sweep lifted the ban of a user banned anew while it ran,
\* time has passed, the next sweep has ended, and the user is free on the
\* platform although the new ban of the history has not expired.
C29_Witness ==
    /\ race.done
    /\ sweepQueue = {}
    /\ 0 < race.at /\ race.at < clock
    /\ \E u \in race.raced : activeBan(u) /\ ~platformBanned(u)

\* ------------------- specification: the sweep under a fair timer
\* the turn of the loop for infraction i in which getUserRestrictedChats and
\* the store answer
sweepSucceeds(i) ==
    \E restriction \in sweepQueue :
        restriction.id = i /\ sweepStep(restriction, TRUE, TRUE)

\* setInterval(() => checkTemporaryBans(bot), 60 * 1000) starts a run again
\* and again, a run that has started goes through its result rows, and the
\* platform and the store do not stay unavailable for one infraction for
\* ever
SweepFairness ==
    /\ WF_vars(sweepStart)
    /\ WF_vars(sweepProcess)
    /\ \A i \in 1..MaxInfractions : SF_vars(sweepSucceeds(i))

SpecFair == Init /\ [][Next]_vars /\ SweepFairness

\* infraction i is a MUTE or BAN whose expiry has passed, which is not
\* superseded, and whose user is known in some chat
ExpiredRestriction(i) ==
    IF i > Len(infractions) THEN FALSE
    ELSE /\ infractions[i].type \in {"BAN", "MUTE"}
         /\ infractions[i].action \in {"BAN", "MUTE"}
         /\ isExpired(infractions[i], clock, storeVersion)
         /\ ~superseded(infractions, i, clock, storeVersion)
         /\ \E c \in Chats : <<infractions[i].user_id, c>> \in messageLogs

\* removeRestriction as the sweep calls it for infraction i returns normally
RemovalAccepted(i) ==
    IF i > Len(infractions) THEN FALSE
    ELSE removeRestriction(storeVersion, infractions, bannedUsers,
             infractions[i].user_id, infractions[i].type, clock).ok

\* the bounded table has no room for the row that the resolution of a mute
\* inserts
NoRoomForUnmuteRow(i) ==
    IF i > Len(infractions) THEN FALSE
    ELSE /\ storeVersion = "expires"
         /\ infractions[i].type = "MUTE"
         /\ (Len(infractions) >= MaxInfractions \/ clock >= MaxClock)

\* infraction i has been selected, its lifts requested and removeRestriction
\* has returned normally; or it has been superseded meanwhile
ResolvedOrSuperseded(i) ==
    IF i > Len(infractions) THEN FALSE
    ELSE \/ i \in resolved
         \/ superseded(infractions, i, clock, storeVersion)
         \/ NoRoomForUnmuteRow(i)

\* C18: under a fair periodic timer every MUTE or BAN infraction whose expiry
\* has passed and which is not superseded is eventually selected by a sweep,
\* its lifts are requested and it is resolved.
C18_ExpiredEventuallyResolved ==
    \A i \in 1..MaxInfractions :
        ExpiredRestriction(i) ~> ResolvedOrSuperseded(i)

\* C18, the part that holds: an expired ban is eventually resolved in the
\* revisions whose removeRestriction accepts a ban, and an expired mute in
\* the revisions whose removeRestriction accepts a mute.
C18_AcceptedEventuallyResolved ==
    \A i \in 1..MaxInfractions :
        (IF RemovalAccepted(i) THEN ExpiredRestriction(i) ELSE FALSE)
            ~> ResolvedOrSuperseded(i)

\* C18 witness: in the first revision the mute of u1 has expired, a sweep has
\* run to its end, and the mute is not resolved.
C18_Witness ==
    /\ storeVersion = "interval"
    /\ ExpiredRestriction(1)
    /\ infractions[1].type = "MUTE"
    /\ sweepQueue = {}
    /\ clock = MaxClock
    /\ 1 \notin resolved

\* two versions of a row that differ at most in the processed flag
SameButProcessed(a, b) == [a EXCEPT !.processed = b.processed] = b

\* C16: infraction rows are append-only: no step (mute or ban command, sweep)
\* removes a row or changes a field of an existing row other than its
\* processed flag.
C16_AppendOnly ==
    [][/\ Len(infractions') >= Len(infractions)
       /\ \A i \in 1..Len(infractions) :
             SameButProcessed(infractions[i], infractions'[i])]_vars

\* C16 witness: the sweep has resolved the mute of u1 written at minute 0:
\* its resolution is a second row, and the row of the mute is as written.
C16_Witness ==
    /\ storeVersion = "expires"
    /\ Len(infractions) = 2
    /\ infractions[1] = [user_id |-> "u1", type |-> "MUTE", action |-> "MUTE",
                         duration |-> 2, created_at |-> 0, expires_at |-> 2,
                         processed |-> FALSE]
    /\ infractions[2].user_id = "u1"
    /\ infractions[2].action = "UNMUTE"
    /\ 1 \in resolved

\* ------------------------ specification: escalation of content violations
WarnInit ==
    /\ ModIdle
    /\ SimIdle
    /\ SpamIdle
    /\ BcIdle
    /\ CacheIdle

WarnNext ==
    \/ warnCommand
    \/ muteCommand
    \/ banUser
    \/ handleBannedContent
    \/ handleSpam

SpecWarn == WarnInit /\ [][WarnNext]_vars

\* C3: with maxWarnings = 3, a violation by a user with 2 prior WARN
\* infractions is handled by requesting a platform ban, not by a warning
\* (the store being available).
C3_EscalatesToBan ==
    (/\ hbc.called
     /\ hbc.max_warnings = 3
     /\ hbc.priorWarns = 2
     /\ hbc.failed # "write") => hbc.action = "ban"

\* C19: the escalation decision of handleSpam and handleBannedContent depends
\* only on the number of the user's infractions of the class of the
\* violation (the row just written included): the terminal action is taken
\* exactly when that number reaches max_warnings, whatever other rows the
\* user has.
C19_OnlyRelevantClassCounts ==
    (hbc.called /\ hbc.failed = "none") =>
        ((hbc.action = "ban") <=> (hbc.priorClass + 1 >= hbc.max_warnings))

\* C19, what the code decides on: the number of all rows of the user
C19_AllRowsCount ==
    (hbc.called /\ hbc.failed = "none") =>
        \E u \in Users :
            /\ infractions[Len(infractions)].user_id = u
            /\ (hbc.action = "ban")
                  <=> (Cardinality(getUserInfractions(infractions, u))
                         >= hbc.max_warnings)

\* C19 witness: the first content violation of a user who has two rows of
\* other kinds is answered with a ban at max_warnings = 3.
C19_Witness ==
    /\ hbc.called
    /\ hbc.handler = "content"
    /\ hbc.failed = "none"
    /\ hbc.max_warnings = 3
    /\ hbc.priorClass = 0
    /\ hbc.action = "ban"

\* C20: when the platform call that deletes the offending message fails,
\* the handling continues: the infraction is written and the action of the
\* escalation rule (warning, mute or ban) is taken.
C20_DeleteFailureContinues ==
    (hbc.called /\ hbc.failed = "delete") =>
        /\ hbc.written
        /\ hbc.action # "none"

\* C20, what the code does: a rejected deleteMessage ends the handler, no
\* row is written and nothing is requested from the platform; without a
\* rejection the row is written and an action is taken.
C20_DeleteFailureAborts ==
    hbc.called =>
        /\ hbc.failed \in {"delete", "write"}
              => (~hbc.written /\ hbc.action = "none")
        /\ hbc.failed \in {"none", "restrict"}
              => (hbc.written /\ hbc.action # "none")

\* C20 witness: handleSpam whose deleteMessage was rejected: nothing written,
\* no restriction requested.
C20_Witness ==
    /\ hbc.called
    /\ hbc.handler = "spam"
    /\ hbc.failed = "delete"
    /\ ~hbc.written
    /\ hbc.action = "none"

\* C21: when the platform call that restricts the user (restrictChatMember or
\* banChatMember) is rejected after the infraction has been written, the row
\* stays in the store as written and the handler returns normally.
C21_RestrictionFailureKeepsRow ==
    (hbc.called /\ hbc.failed = "restrict") =>
        /\ hbc.written
        /\ ~hbc.enforced
        /\ ~hbc.threw
        /\ Len(infractions) > 0
        /\ infractions[Len(infractions)].type
              = (IF hbc.handler = "spam" THEN "SPAM" ELSE "BANNED_CONTENT")
        /\ infractions[Len(infractions)].created_at = clock - 1
        /\ ~infractions[Len(infractions)].processed

\* C21 witness: handleSpam wrote the SPAM row, restrictChatMember was
\* rejected, the row is in the store and the handler returned.
C21_Witness ==
    /\ hbc.called
    /\ hbc.handler = "spam"
    /\ hbc.failed = "restrict"
    /\ hbc.action = "mute"
    /\ ~hbc.enforced
    /\ ~hbc.threw
    /\ Len(infractions) = 1
    /\ infractions[1].type = "SPAM"

\* C22: when the write of the infraction is rejected by the store, the error
\* reaches the caller of the handler (handleMessage observes it) and no
\* restriction is requested from the platform for that violation.
C22_WriteFailureRethrown ==
    (hbc.called /\ hbc.failed = "write") =>
        /\ hbc.threw
        /\ ~hbc.written
        /\ hbc.action = "none"

\* C22, what the code does: no row, no request to the platform, and the
\* handler returns normally, its caller sees nothing.
C22_WriteFailureSwallowed ==
    (hbc.called /\ hbc.failed = "write") =>
        /\ ~hbc.threw
        /\ ~hbc.written
        /\ hbc.action = "none"
        /\ ~hbc.enforced

\* C22 witness: handleBannedContent whose logInfraction was rejected
C22_Witness ==
    /\ hbc.called
    /\ hbc.handler = "content"
    /\ hbc.failed = "write"
    /\ ~hbc.threw
    /\ hbc.action = "none"

\* C23: the spam path never requests a platform ban: at the threshold the
\* terminal action of a spam violation is a temporary mute.
C23_SpamNeverBans ==
    (hbc.called /\ hbc.handler = "spam") => hbc.action # "ban"

\* C23, what the code does: at the threshold handleSpam requests a ban of
\* one hour, below it a mute of ten minutes.
C23_SpamBansAtThreshold ==
    (hbc.called /\ hbc.handler = "spam" /\ hbc.written) =>
        /\ Len(infractions) > 0
        /\ LET u == infractions[Len(infractions)].user_id
               n == Cardinality(getUserInfractions(infractions, u))
           IN IF n >= hbc.max_warnings
              THEN hbc.action = "ban" /\ hbc.until = spamBanMinutes
              ELSE hbc.action = "mute" /\ hbc.until = spamMuteMinutes

\* C23 witness: a spam violation at the threshold answered with a ban
C23_Witness ==
    /\ hbc.called
    /\ hbc.handler = "spam"
    /\ hbc.failed = "none"
    /\ hbc.action = "ban"
    /\ hbc.enforced

\* C24: for a spam violation below the threshold the row written has action
\* MUTE and the duration of the settings, and the mute requested from the
\* platform lasts that duration, so that the expiry of the row and the
\* until-date of the platform agree.
C24_MuteDurationsAgree ==
    (hbc.called /\ hbc.handler = "spam" /\ hbc.action = "mute") =>
        /\ infractions[Len(infractions)].action = "MUTE"
        /\ infractions[Len(infractions)].duration = hbc.duration
        /\ hbc.until = hbc.duration
        /\ infractions[Len(infractions)].expires_at
              = infractions[Len(infractions)].created_at + hbc.until

\* C24, what the code does: the row has action MUTE and the duration of the
\* settings, the platform mute lasts ten minutes whatever the settings.
C24_MuteIsTenMinutes ==
    (hbc.called /\ hbc.handler = "spam" /\ hbc.action = "mute") =>
        /\ infractions[Len(infractions)].action = "MUTE"
        /\ infractions[Len(infractions)].duration = hbc.duration
        /\ hbc.until = spamMuteMinutes

\* C24 witness: a row with a mute of 2 minutes and a platform mute of 10
C24_Witness ==
    /\ hbc.called
    /\ hbc.handler = "spam"
    /\ hbc.action = "mute"
    /\ hbc.enforced
    /\ hbc.duration = 2
    /\ hbc.until = 10

\* C25: the warning number shown in the notification of a violation that
\* is not escalated is the number of the user's infractions, the one just
\* recorded included.
C25_ShownIsCurrentCount ==
    (hbc.called /\ hbc.shown # NULL) =>
        LET u == infractions[Len(infractions)].user_id
        IN hbc.shown = Cardinality(getUserInfractions(infractions, u))

\* C25, what the code shows: one more than that number
C25_ShownIsCountPlusOne ==
    (hbc.called /\ hbc.shown # NULL) =>
        LET u == infractions[Len(infractions)].user_id
        IN /\ hbc.shown = Cardinality(getUserInfractions(infractions, u)) + 1
           /\ hbc.shown <= hbc.max_warnings

\* C25 witness: the first violation of a user is announced as warning 2
C25_Witness ==
    /\ hbc.called
    /\ hbc.handler = "content"
    /\ Len(infractions) = 1
    /\ hbc.max_warnings = 3
    /\ hbc.shown = 2

\* C4: getExpiredRestrictions never returns an expired MUTE or BAN row of a
\* user who has a newer row of the same kind whose expiry lies in the future.
C4_SupersededNotSelected ==
    \A c \in getExpiredRestrictions(infractions, messageLogs, clock, storeVersion) :
        ~ \E j \in 1..Len(infractions) :
              /\ infractions[j].user_id = c.user_id
              /\ infractions[j].type = c.type
              /\ infractions[j].created_at > c.created_at
              /\ infractions[j].expires_at # NULL
              /\ infractions[j].expires_at > clock

C4_Witness ==
    /\ storeVersion = "expires"
    /\ sweepQueue # {}
    /\ sweepQueue = getExpiredRestrictions(infractions, messageLogs, clock,
                                           storeVersion)
    /\ \E i, j \in 1..Len(infractions) :
          /\ infractions[i].type = "MUTE"
          /\ infractions[i].expires_at # NULL
          /\ infractions[i].expires_at <= clock
          /\ <<infractions[i].user_id, "c1">> \in messageLogs
          /\ infractions[j].user_id = infractions[i].user_id
          /\ infractions[j].type = "MUTE"
          /\ infractions[j].created_at > infractions[i].created_at
          /\ infractions[j].expires_at # NULL
          /\ infractions[j].expires_at > clock
          /\ \A c \in sweepQueue : c.id # i

\* C5: a sweep that follows the resolution of an infraction, nothing having
\* been written by a handler in between, neither selects that infraction
\* again nor requests another platform lift for it.
C5_NoSecondLift ==
    /\ \A c \in sweepQueue : c.id \notin sweepPrior
    /\ reLifted = {}
====
